---------------------------- MODULE Spec2Model ----------------------------
(***************************************************************************)
(* Model of the Cuizly restaurant website builder:                         *)
(*   - the generate-image edge function (prompt enhancement, the call to   *)
(*     the image API, the response mapping),                               *)
(*   - the restaurant_websites table with its stored procedures,           *)
(*   - the useRestaurantWebsite hook and the website builder section,      *)
(*   - the public RestaurantSite page.                                     *)
(* Texts are TLA+ strings; TLC evaluates Len, \o and SubSeq on them.       *)
(***************************************************************************)
EXTENDS Integers, Sequences, FiniteSets, TLC

VARIABLES
  \* One request to the generate-image edge function
  pc,              \* where the handler of the request stands
  method,          \* req.method
  bodyOk,          \* whether req.json() yields an object
  prompt,          \* the body's prompt (undefined when absent)
  language,        \* the body's language (undefined when absent)
  apiKey,          \* Deno.env.get('LOVABLE_API_KEY')
  enhancedPrompt,  \* the content sent to the image API
  fetchCalls,      \* calls of fetch made for the request
  apiStatus,       \* response.status of the image API (0: no answer)
  imageUrl,        \* data.choices?.[0]?.message?.images?.[0]?.image_url?.url
  error,           \* the message of the error the catch block caught
  response,        \* the Response the handler returned
  \* The hosted store
  table,           \* the rows of restaurant_websites
  restaurants,     \* the restaurants table: id -> owner_id, is_active, name
  \* The website builder, one instance per session (browser tab)
  restaurantId,    \* the restaurantId the hook is given
  effectPending,   \* the effect on [restaurantId] has yet to run
  config,          \* the hook's config (Empty: null)
  loading,         \* the hook's loading flag
  saving,          \* the hook's saving flag
  formData,        \* the builder's form
  hasChanges,      \* the builder's hasChanges flag
  ops,             \* the asynchronous calls in flight, by slot
  clicks,          \* user actions taken so far, all sessions together
  toasts,          \* per hook: the descriptions of the toasts shown, in order
  logs,            \* per hook: the console.error messages, in order
  returned,        \* per hook: what the last saveConfig call returned
  \* The public RestaurantSite page
  subdomainParam,  \* the route parameter subdomain (useParams)
  pageData,        \* the page's data (Empty: null)
  pageLoading,     \* the page's loading flag
  pageError,       \* the page's error (null: none)
  pageOps,         \* the get_public_website calls in flight
  visits,          \* route changes so far
  \* Statements sent to the table directly, outside the application
  statement,       \* the last statement and its outcome
  statements       \* statements so far

fnVars == <<pc, method, bodyOk, prompt, language, apiKey, enhancedPrompt,
            fetchCalls, apiStatus, imageUrl, error, response>>
storeVars == <<table, restaurants>>
hookVars == <<restaurantId, effectPending, config, loading, saving, formData,
              hasChanges, ops, clicks, toasts, logs, returned>>
pageVars == <<subdomainParam, pageData, pageLoading, pageError, pageOps, visits>>
sqlVars == <<statement, statements>>
vars == <<fnVars, storeVars, hookVars, pageVars, sqlVars>>

\* The JavaScript value undefined / a field that is absent.
undefined == "<undefined>"
\* The JavaScript value null / SQL NULL.
null == "<null>"

---------------------------------------------------------------------------
(* Text helpers *)

\* String.prototype.toLowerCase on one character.
LowerChar(c) ==
  CASE c = "A" -> "a" [] c = "B" -> "b" [] c = "C" -> "c" [] c = "D" -> "d"
    [] c = "E" -> "e" [] c = "F" -> "f" [] c = "G" -> "g" [] c = "H" -> "h"
    [] c = "I" -> "i" [] c = "J" -> "j" [] c = "K" -> "k" [] c = "L" -> "l"
    [] c = "M" -> "m" [] c = "N" -> "n" [] c = "O" -> "o" [] c = "P" -> "p"
    [] c = "Q" -> "q" [] c = "R" -> "r" [] c = "S" -> "s" [] c = "T" -> "t"
    [] c = "U" -> "u" [] c = "V" -> "v" [] c = "W" -> "w" [] c = "X" -> "x"
    [] c = "Y" -> "y" [] c = "Z" -> "z" [] c = "É" -> "é" [] OTHER -> c

RECURSIVE toLowerCase(_)
toLowerCase(s) ==
  IF Len(s) = 0 THEN ""
  ELSE LowerChar(SubSeq(s, 1, 1)) \o toLowerCase(SubSeq(s, 2, Len(s)))

\* Whether kw occurs in s (what an unanchored literal alternative of a
\* regular expression tests).
Includes(s, kw) ==
  \E i \in 1..(Len(s) - Len(kw) + 1) : SubSeq(s, i, i + Len(kw) - 1) = kw

\* RegExp.prototype.test for a pattern that is an alternation of literals,
\* with the i flag: some alternative occurs, letter case ignored.
TestAny(kws, s) == \E kw \in kws : Includes(toLowerCase(s), toLowerCase(kw))

\* String.prototype.startsWith
startsWith(s, p) == Len(s) >= Len(p) /\ SubSeq(s, 1, Len(p)) = p

---------------------------------------------------------------------------
(* generate-image: enhancePrompt *)

ArtisticPattern == {"art", "painting", "drawing", "sketch", "illustration",
                    "cartoon", "anime", "watercolor", "oil painting", "abstract"}
PhotoPattern == {"photo", "photograph", "realistic", "real", "portrait",
                 "landscape", "nature"}
FoodPattern == {"food", "dish", "meal", "recipe", "cuisine", "restaurant",
                "plat", "repas", "nourriture"}
LogoPattern == {"logo", "icon", "brand", "emblem", "badge"}
ThreeDPattern == {"3d", "render", "cgi", "digital art"}
MinimalPattern == {"minimal", "simple", "clean", "flat"}

\* The if / else-if chain of the English branch: <<stylePrefix, styleSuffix>>.
EnglishStyle(isArtistic, isLogo, is3D, isMinimal, isFood, isPhoto) ==
  IF isArtistic THEN
    <<"Beautiful artistic creation, masterful technique: ",
      ". Rich details, expressive style, museum quality artwork.">>
  ELSE IF isLogo THEN
    <<"Professional logo design, clean vector style: ",
      ". Modern, memorable, scalable design with perfect symmetry.">>
  ELSE IF is3D THEN
    <<"High-quality 3D render, cinematic lighting: ",
      ". Octane render quality, realistic materials, dramatic composition.">>
  ELSE IF isMinimal THEN
    <<"Clean minimal design: ",
      ". Simple, elegant, balanced composition with purposeful whitespace.">>
  ELSE IF isFood THEN
    <<"Professional food photography, appetizing presentation: ",
      ". Gourmet styling, perfect lighting, mouth-watering details, 8K quality.">>
  ELSE IF isPhoto THEN
    <<"Professional photography, ultra high resolution: ",
      ". Perfect lighting, sharp focus, vivid colors, 8K quality.">>
  ELSE
    <<"High quality, detailed image: ",
      ". Professional quality, vivid colors, excellent composition, 4K resolution.">>

\* The if / else-if chain of the other branch: <<stylePrefix, styleSuffix>>.
FrenchStyle(isArtistic, isLogo, is3D, isMinimal, isFood, isPhoto) ==
  IF isArtistic THEN
    <<"Belle création artistique, technique maîtrisée: ",
      ". Détails riches, style expressif, qualité musée.">>
  ELSE IF isLogo THEN
    <<"Design de logo professionnel, style vectoriel épuré: ",
      ". Moderne, mémorable, design scalable avec symétrie parfaite.">>
  ELSE IF is3D THEN
    <<"Rendu 3D haute qualité, éclairage cinématique: ",
      ". Qualité Octane render, matériaux réalistes, composition dramatique.">>
  ELSE IF isMinimal THEN
    <<"Design minimaliste épuré: ",
      ". Simple, élégant, composition équilibrée avec espaces blancs intentionnels.">>
  ELSE IF isFood THEN
    <<"Photographie culinaire professionnelle, présentation appétissante: ",
      ". Style gastronomique, éclairage parfait, détails savoureux, qualité 8K.">>
  ELSE IF isPhoto THEN
    <<"Photographie professionnelle, ultra haute résolution: ",
      ". Éclairage parfait, mise au point nette, couleurs vives, qualité 8K.">>
  ELSE
    <<"Image de haute qualité, détaillée: ",
      ". Qualité professionnelle, couleurs vives, excellente composition, résolution 4K.">>

\* The language test made case-insensitive.
IsEnglishAnyCase(lang) == toLowerCase(lang) = "en"

\* if (lang === 'en')
IsEnglish(lang) == lang = "en"

\* enhancePrompt returning the lower-cased prompt between the templates.
enhancePromptLowercased(userPrompt, lang) ==
  LET lowercasePrompt == toLowerCase(userPrompt)
      isArtistic == TestAny(ArtisticPattern, lowercasePrompt)
      isPhoto    == TestAny(PhotoPattern, lowercasePrompt)
      isFood     == TestAny(FoodPattern, lowercasePrompt)
      isLogo     == TestAny(LogoPattern, lowercasePrompt)
      is3D       == TestAny(ThreeDPattern, lowercasePrompt)
      isMinimal  == TestAny(MinimalPattern, lowercasePrompt)
      style == IF IsEnglish(lang)
               THEN EnglishStyle(isArtistic, isLogo, is3D, isMinimal, isFood, isPhoto)
               ELSE FrenchStyle(isArtistic, isLogo, is3D, isMinimal, isFood, isPhoto)
  IN  style[1] \o lowercasePrompt \o style[2]

\* enhancePrompt(userPrompt, lang) for a string userPrompt.
enhancePrompt(userPrompt, lang) ==
  LET lowercasePrompt == toLowerCase(userPrompt)
      isArtistic == TestAny(ArtisticPattern, lowercasePrompt)
      isPhoto    == TestAny(PhotoPattern, lowercasePrompt)
      isFood     == TestAny(FoodPattern, lowercasePrompt)
      isLogo     == TestAny(LogoPattern, lowercasePrompt)
      is3D       == TestAny(ThreeDPattern, lowercasePrompt)
      isMinimal  == TestAny(MinimalPattern, lowercasePrompt)
      style == IF IsEnglish(lang)
               THEN EnglishStyle(isArtistic, isLogo, is3D, isMinimal, isFood, isPhoto)
               ELSE FrenchStyle(isArtistic, isLogo, is3D, isMinimal, isFood, isPhoto)
  IN  style[1] \o userPrompt \o style[2]

\* a ?? b: b only when a is null or undefined.
OrElseNullish(a, b) == IF a \in {undefined, null} THEN b ELSE a

\* a || b on strings and undefined: b when a is falsy.
OrElse(a, b) == IF a \in {undefined, null, ""} THEN b ELSE a

---------------------------------------------------------------------------
(* generate-image: the request handler *)

\* Bounds of the request model.
MaxWords == 2
MaxPayloadLen == 3

\* A value that is neither a string nor undefined (an object, a number).
anObject == "<object>"

\* The texts of at most n characters over alphabet.
RECURSIVE Texts(_, _)
Texts(alphabet, n) ==
  IF n = 0 THEN {""}
  ELSE {""} \cup {c \o t : c \in alphabet, t \in Texts(alphabet, n - 1)}

\* Image URLs the API may answer with: bare base64, data URIs with their
\* comma, a data URI without one, and payloads holding a further comma.
UrlHeads == {"", "data:image/png;base64,", "data:image/jpeg;base64,", "data:image/png;base64"}
ImageUrls == {h \o t : h \in UrlHeads, t \in Texts({"A", "=", ","}, MaxPayloadLen)}

ApiStatuses == {200, 201, 400, 402, 429, 500, 503}
\* Response.ok
Ok(status) == status \in 200..299

\* String.prototype.split for a one-character separator.
RECURSIVE split(_, _)
split(s, sep) ==
  LET hits == {i \in 1..Len(s) : SubSeq(s, i, i) = sep}
  IN  IF hits = {} THEN <<s>>
      ELSE LET i == CHOOSE j \in hits : \A k \in hits : j <= k
           IN  <<SubSeq(s, 1, i - 1)>> \o split(SubSeq(s, i + 1, Len(s)), sep)

\* arr[i] of a JavaScript array (indices from 0): undefined past the end.
At(arr, i) == IF i + 1 <= Len(arr) THEN arr[i + 1] ELSE undefined

\* JSON.stringify of an object: a property whose value is undefined is left
\* out (textKeys: the properties holding a text or undefined).
JsonStringify(obj, textKeys) ==
  [k \in {j \in DOMAIN obj : j \notin textKeys \/ obj[j] # undefined} |-> obj[k]]

NoBody == [k \in {} |-> ""]
NoResponse == [status |-> 0, cors |-> FALSE, body |-> NoBody]

\* new Response(JSON.stringify({error, success: false}), {status, headers})
ErrorResponse(status, message) ==
  [status |-> status, cors |-> TRUE,
   body |-> JsonStringify([error |-> message, success |-> FALSE], {"error"})]

\* The catch block: log, answer 500 with error.message.
Catch(message) ==
  /\ error' = message
  /\ response' = ErrorResponse(500, message)
  /\ pc' = "done"

\* Lines 142-145: the base64 text of a string imageUrl.
ExtractBase64(url) ==
  IF startsWith(url, "data:") THEN At(split(url, ","), 1) ELSE url

\* if (req.method === 'OPTIONS') return new Response(null, {headers: corsHeaders})
HandleOptions ==
  /\ pc = "received" /\ method = "OPTIONS"
  /\ response' = [status |-> 200, cors |-> TRUE, body |-> NoBody]
  /\ pc' = "done"
  /\ UNCHANGED <<storeVars, hookVars, pageVars, sqlVars, method, bodyOk, prompt, language, apiKey, enhancedPrompt,
                 fetchCalls, apiStatus, imageUrl, error>>

\* const { prompt, language } = await req.json()
ParseBody ==
  /\ pc = "received" /\ method # "OPTIONS"
  /\ IF bodyOk
     THEN pc' = "parsed" /\ UNCHANGED <<error, response>>
     ELSE Catch("Unexpected end of JSON input")
  /\ UNCHANGED <<storeVars, hookVars, pageVars, sqlVars, method, bodyOk, prompt, language, apiKey, enhancedPrompt,
                 fetchCalls, apiStatus, imageUrl>>

\* CallApi without the credential check before the call of fetch.
CallApiKeyUnchecked ==
  /\ pc = "parsed"
  /\ IF prompt \in {undefined, anObject}
     THEN /\ Catch("userPrompt.toLowerCase is not a function")
          /\ UNCHANGED <<enhancedPrompt, fetchCalls>>
     ELSE /\ enhancedPrompt' = enhancePrompt(prompt, OrElse(language, "fr"))
          /\ fetchCalls' = fetchCalls + 1
          /\ pc' = "fetching"
          /\ UNCHANGED <<error, response>>
  /\ UNCHANGED <<storeVars, hookVars, pageVars, sqlVars, method, bodyOk, prompt, language, apiKey, apiStatus, imageUrl>>

\* Lines 17-108: the credential check, enhancePrompt, the call of fetch.
CallApi ==
  /\ pc = "parsed"
  /\ IF OrElse(apiKey, "") = ""
     THEN /\ Catch("LOVABLE_API_KEY is not configured")
          /\ UNCHANGED <<enhancedPrompt, fetchCalls>>
     ELSE IF prompt \in {undefined, anObject}
     THEN /\ Catch("userPrompt.toLowerCase is not a function")
          /\ UNCHANGED <<enhancedPrompt, fetchCalls>>
     ELSE /\ enhancedPrompt' = enhancePrompt(prompt, OrElse(language, "fr"))
          /\ fetchCalls' = fetchCalls + 1
          /\ pc' = "fetching"
          /\ UNCHANGED <<error, response>>
  /\ UNCHANGED <<storeVars, hookVars, pageVars, sqlVars, method, bodyOk, prompt, language, apiKey, apiStatus, imageUrl>>

\* A rejected fetch sent back to the call of fetch (a retry).
FetchRejectsRetry ==
  /\ pc = "fetching"
  /\ pc' = "parsed"
  /\ UNCHANGED <<storeVars, hookVars, pageVars, sqlVars, method, bodyOk, prompt, language, apiKey, enhancedPrompt,
                 fetchCalls, apiStatus, imageUrl, error, response>>

\* fetch rejects (no answer from the API): the catch block answers.
FetchRejects ==
  /\ pc = "fetching"
  /\ Catch("error sending request")
  /\ UNCHANGED <<storeVars, hookVars, pageVars, sqlVars, method, bodyOk, prompt, language, apiKey, enhancedPrompt,
                 fetchCalls, apiStatus, imageUrl>>

\* FetchNotOk without the special case of status 402.
FetchNotOkNo402 ==
  /\ pc = "fetching"
  /\ \E status \in {st \in ApiStatuses : ~Ok(st)} :
       /\ apiStatus' = status
       /\ IF status = 429
          THEN /\ response' = ErrorResponse(429, "Rate limit exceeded, please try again later.")
               /\ pc' = "done" /\ UNCHANGED error
          ELSE Catch("Lovable AI error: " \o ToString(status))
  /\ UNCHANGED <<storeVars, hookVars, pageVars, sqlVars, method, bodyOk, prompt, language, apiKey, enhancedPrompt,
                 fetchCalls, imageUrl>>

\* Lines 110-128: the API answered with a non-success status.
FetchNotOk ==
  /\ pc = "fetching"
  /\ \E status \in {st \in ApiStatuses : ~Ok(st)} :
       /\ apiStatus' = status
       /\ IF status = 429
          THEN /\ response' = ErrorResponse(429, "Rate limit exceeded, please try again later.")
               /\ pc' = "done" /\ UNCHANGED error
          ELSE IF status = 402
          THEN /\ response' = ErrorResponse(402, "Payment required, please add credits.")
               /\ pc' = "done" /\ UNCHANGED error
          ELSE Catch("Lovable AI error: " \o ToString(status))
  /\ UNCHANGED <<storeVars, hookVars, pageVars, sqlVars, method, bodyOk, prompt, language, apiKey, enhancedPrompt,
                 fetchCalls, imageUrl>>

\* Lines 130-157: the API answered with a success status; jsonOk: whether
\* response.json() yields a value, url: the image URL found in it.
FetchOk ==
  /\ pc = "fetching"
  /\ \E status \in {st \in ApiStatuses : Ok(st)}, jsonOk \in BOOLEAN,
        url \in ImageUrls \cup {undefined, null, anObject} :
       /\ apiStatus' = status
       /\ IF ~jsonOk
          THEN Catch("Unexpected token in JSON") /\ UNCHANGED imageUrl
          ELSE /\ imageUrl' = url
               /\ IF OrElse(url, "") = ""
                  THEN Catch("No image generated")
                  ELSE IF url = anObject
                  THEN Catch("imageUrl.startsWith is not a function")
                  ELSE /\ response' =
                            [status |-> 200, cors |-> TRUE,
                             body |-> JsonStringify(
                                        [imageBase64 |-> ExtractBase64(url),
                                         success |-> TRUE], {"imageBase64"})]
                       /\ pc' = "done"
                       /\ UNCHANGED error
  /\ UNCHANGED <<storeVars, hookVars, pageVars, sqlVars, method, bodyOk, prompt, language, apiKey, enhancedPrompt,
                 fetchCalls>>


---------------------------------------------------------------------------
(* The hosted store: restaurants, restaurant_websites, stored procedures *)

\* Bound: rows the restaurant_websites table may hold.
MaxRows == 2

\* An object without properties ({}), also standing for "no data".
Empty == [k \in {} |-> ""]

\* {...a, ...b}
Merge(a, b) ==
  [k \in DOMAIN a \cup DOMAIN b |-> IF k \in DOMAIN b THEN b[k] ELSE a[k]]

\* obj.k read by JavaScript: undefined when the property is absent.
Get(obj, k) == IF k \in DOMAIN obj THEN obj[k] ELSE undefined

\* The columns of restaurant_websites kept by the model (hero_title stands
\* for the display columns, which are independent of each other).
Columns == {"id", "restaurant_id", "is_published", "subdomain", "custom_domain",
            "hero_title"}

\* The column defaults of CREATE TABLE (id: gen_random_uuid(), see FreshId).
ColumnDefaults ==
  [is_published |-> FALSE, subdomain |-> null, custom_domain |-> null,
   hero_title |-> null]

\* The users: the owner of the restaurants, and another account.
Users == {"u1", "u2"}

\* A policy that lets every signed-in user pass.
OwnsIfSignedIn(uid, rid, rests) == rid \in DOMAIN rests /\ uid # null

\* auth.uid() owns the restaurant (the EXISTS of the policies).
Owns(uid, rid, rests) == rid \in DOMAIN rests /\ rests[rid].owner_id = uid

\* gen_random_uuid(): an id no row holds.
FreshId(tbl) ==
  LET n == CHOOSE i \in 1..(Cardinality(tbl) + 1) :
             /\ \A row \in tbl : row.id # "w" \o ToString(i)
             /\ \A j \in 1..(i - 1) : \E row \in tbl : row.id = "w" \o ToString(j)
  IN  "w" \o ToString(n)

\* The constraints without UNIQUE (custom_domain).
ConstraintsHoldButCustomDomain(tbl, rests) ==
  /\ \A a \in tbl, b \in tbl :
       a # b => /\ a.id # b.id
                /\ (a.subdomain # null => a.subdomain # b.subdomain)
  /\ \A a \in tbl : a.restaurant_id \in DOMAIN rests

\* PRIMARY KEY (id), UNIQUE (subdomain), UNIQUE (custom_domain): NULLs never
\* collide. There is no constraint on restaurant_id but NOT NULL and the
\* foreign key.
ConstraintsHold(tbl, rests) ==
  /\ \A a \in tbl, b \in tbl :
       a # b => /\ a.id # b.id
                /\ (a.subdomain # null => a.subdomain # b.subdomain)
                /\ (a.custom_domain # null => a.custom_domain # b.custom_domain)
  /\ \A a \in tbl : a.restaurant_id \in DOMAIN rests

\* INSERT of a payload by uid: <<ok, table after, the row returned>>.
\* Absent columns take their defaults; the INSERT policy checks the owner.
Insert(tbl, rests, uid, payload) ==
  LET given == [k \in (DOMAIN payload \cap Columns) \ {"id"} |-> payload[k]]
      id    == IF Get(payload, "id") \in {undefined, null}
               THEN FreshId(tbl) ELSE payload.id
      row   == Merge(Merge(ColumnDefaults, given), [id |-> id])
      after == tbl \cup {row}
  IN  IF /\ "restaurant_id" \in DOMAIN given
         /\ Owns(uid, given.restaurant_id, rests)
         /\ \A old \in tbl : old.id # id
         /\ ConstraintsHold(after, rests)
      THEN <<TRUE, after, row>>
      ELSE <<FALSE, tbl, Empty>>

\* An UPDATE that keeps a hero_title already set (first writer wins).
UpdateFirstWriterWins(tbl, rests, uid, rowId, updates) ==
  LET targets == {row \in tbl : row.id = rowId /\ Owns(uid, row.restaurant_id, rests)}
      after   == (tbl \ targets) \cup
                   {[k \in DOMAIN row |->
                       IF k \in DOMAIN updates /\ (k # "hero_title" \/ row[k] = null)
                       THEN updates[k] ELSE row[k]] :
                      row \in targets}
  IN  IF ConstraintsHold(after, rests) THEN <<TRUE, after>> ELSE <<FALSE, tbl>>

\* UPDATE ... SET updates WHERE id = rowId by uid: <<ok, table after>>.
\* The UPDATE policy hides the rows of other owners; a statement that
\* matches no row succeeds.
Update(tbl, rests, uid, rowId, updates) ==
  LET given   == [k \in DOMAIN updates \cap Columns |-> updates[k]]
      targets == {row \in tbl : row.id = rowId /\ Owns(uid, row.restaurant_id, rests)}
      after   == (tbl \ targets) \cup {Merge(row, given) : row \in targets}
  IN  IF /\ Cardinality(after) = Cardinality(tbl)
         /\ ConstraintsHold(after, rests)
         /\ \A row \in targets : Owns(uid, Merge(row, given).restaurant_id, rests)
      THEN <<TRUE, after>>
      ELSE <<FALSE, tbl>>

\* DELETE ... WHERE id = rowId by uid: <<ok, table after>>. The DELETE
\* policy hides the rows of other owners.
Delete(tbl, rests, uid, rowId) ==
  <<TRUE, {row \in tbl : ~(row.id = rowId /\ Owns(uid, row.restaurant_id, rests))}>>

\* SELECT * by uid: the rows the two SELECT policies show.
ReadableRows(tbl, rests, uid) ==
  {row \in tbl : Owns(uid, row.restaurant_id, rests) \/ row.is_published}

\* SELECT * WHERE restaurant_id = rid, .maybeSingle(), by uid: <<ok, data>>.
\* The SELECT policies show a row to its owner and to all once published.
SelectMaybeSingle(tbl, rests, uid, rid) ==
  LET rows == {row \in tbl : /\ row.restaurant_id = rid
                             /\ (Owns(uid, row.restaurant_id, rests) \/ row.is_published)}
  IN  IF rows = {} THEN <<TRUE, Empty>>
      ELSE IF Cardinality(rows) = 1 THEN <<TRUE, CHOOSE row \in rows : TRUE>>
      ELSE <<FALSE, Empty>>

\* unaccent() on one character.
UnaccentChar(c) ==
  CASE c \in {"é", "è", "ê"} -> "e" [] c = "É" -> "E" [] c = "à" -> "a"
    [] c = "ç" -> "c" [] c = "ô" -> "o" [] OTHER -> c

RECURSIVE unaccent(_)
unaccent(s) ==
  IF Len(s) = 0 THEN ""
  ELSE UnaccentChar(SubSeq(s, 1, 1)) \o unaccent(SubSeq(s, 2, Len(s)))

\* The class [a-z0-9].
LowerAlnum == {"a", "b", "c", "d", "e", "f", "g", "h", "i", "j", "k", "l", "m",
               "n", "o", "p", "q", "r", "s", "t", "u", "v", "w", "x", "y", "z",
               "0", "1", "2", "3", "4", "5", "6", "7", "8", "9"}

\* regexp_replace(s, '[^a-z0-9]+', '-', 'g'): each maximal run of characters
\* outside [a-z0-9] becomes one hyphen.
RECURSIVE ReplaceRuns(_, _)
ReplaceRuns(s, inRun) ==
  IF Len(s) = 0 THEN ""
  ELSE LET c == SubSeq(s, 1, 1)
           rest == SubSeq(s, 2, Len(s))
       IN  IF c \in LowerAlnum THEN c \o ReplaceRuns(rest, FALSE)
           ELSE IF inRun THEN ReplaceRuns(rest, TRUE)
           ELSE "-" \o ReplaceRuns(rest, TRUE)

\* trim(both '-' from s)
RECURSIVE TrimHyphens(_)
TrimHyphens(s) ==
  IF Len(s) = 0 THEN ""
  ELSE IF SubSeq(s, 1, 1) = "-" THEN TrimHyphens(SubSeq(s, 2, Len(s)))
  ELSE IF SubSeq(s, Len(s), Len(s)) = "-" THEN TrimHyphens(SubSeq(s, 1, Len(s) - 1))
  ELSE s

\* base_slug of generate_website_subdomain: the replacement runs on the
\* unaccented name, lower() on its result.
BaseSlug(name) == TrimHyphens(toLowerCase(ReplaceRuns(unaccent(name), FALSE)))

\* The loop replaced by a single test: the suffix -1 is not checked again.
UniqueSlugOnce(tbl, base, final, counter) ==
  IF \E row \in tbl : row.subdomain = final
  THEN base \o "-" \o ToString(counter + 1)
  ELSE final

\* The WHILE loop of generate_website_subdomain, from counter on.
RECURSIVE UniqueSlug(_, _, _, _)
UniqueSlug(tbl, base, final, counter) ==
  IF \E row \in tbl : row.subdomain = final
  THEN UniqueSlug(tbl, base, base \o "-" \o ToString(counter + 1), counter + 1)
  ELSE final

\* generate_website_subdomain(restaurant_name) (SECURITY DEFINER: all rows).
generate_website_subdomain(tbl, name) ==
  UniqueSlug(tbl, BaseSlug(name), BaseSlug(name), 0)

\* get_public_website without its is_published filter.
get_public_website_unfiltered(tbl, rests, sub) ==
  {[website_config |-> rw, restaurant_data |-> [id |-> rw.restaurant_id,
                                                name |-> rests[rw.restaurant_id].name,
                                                description |->
                                                  rests[rw.restaurant_id].description,
                                                description_fr |->
                                                  rests[rw.restaurant_id].description_fr,
                                                reservations_enabled |->
                                                  rests[rw.restaurant_id].reservations_enabled]] :
     rw \in {row \in tbl : /\ sub \notin {null, undefined}
                            /\ row.subdomain # null
                            /\ row.subdomain = sub
                            /\ rests[row.restaurant_id].is_active = TRUE}}

\* get_public_website(website_subdomain): the set of records returned
\* (SECURITY DEFINER: all rows).
get_public_website(tbl, rests, sub) ==
  {[website_config |-> rw, restaurant_data |-> [id |-> rw.restaurant_id,
                                                name |-> rests[rw.restaurant_id].name,
                                                description |->
                                                  rests[rw.restaurant_id].description,
                                                description_fr |->
                                                  rests[rw.restaurant_id].description_fr,
                                                reservations_enabled |->
                                                  rests[rw.restaurant_id].reservations_enabled]] :
     rw \in {row \in tbl : /\ sub \notin {null, undefined}
                            /\ row.subdomain # null
                            /\ row.subdomain = sub
                            /\ row.is_published = TRUE
                            /\ rests[row.restaurant_id].is_active = TRUE}}

---------------------------------------------------------------------------
(* useRestaurantWebsite and WebsiteBuilderSection *)

\* Bounds: user actions in all, calls in flight per session.
MaxClicks == 2
MaxPending == 2

\* The sessions: two browser tabs of the restaurant's owner.
Sessions == {"tabA", "tabB"}
SessionUser == [s \in Sessions |-> "u1"]
Slots == 1..MaxPending

\* What the user of each session may type: field -> values.
Typed ==
  [tabA |-> [hero_title |-> {"Bienvenue"}],
   tabB |-> [hero_title |-> {"Bonjour"}, subdomain |-> {"bistro"},
             custom_domain |-> {"bistro.fr"}]]

\* defaultConfig with is_published true.
defaultConfigPublished ==
  [is_published |-> TRUE, subdomain |-> null, custom_domain |-> null,
   hero_title |-> null]

\* defaultConfig
defaultConfig ==
  [is_published |-> FALSE, subdomain |-> null, custom_domain |-> null,
   hero_title |-> null]

\* A JavaScript value is falsy.
Falsy(v) == v \in {undefined, null, ""}

\* obj.k is true.
IsTrue(obj, k) == k \in DOMAIN obj /\ obj[k] = TRUE

\* if (config.id)
HasId(cfg) == ~Falsy(Get(cfg, "id"))

\* No call in a slot.
IdleOp ==
  [kind |-> "idle", stage |-> "none", caller |-> "none", rid |-> null,
   cfg |-> Empty, form |-> Empty, updates |-> Empty, ok |-> FALSE, data |-> Empty]

\* The least free slot of session s (0: none).
FreeSlot(s) ==
  IF \E i \in Slots : ops[s][i].kind = "idle"
  THEN CHOOSE i \in Slots : /\ ops[s][i].kind = "idle"
                            /\ \A j \in Slots : ops[s][j].kind = "idle" => i <= j
  ELSE 0

\* The two effects of the builder after the state changed: a new config
\* replaces the form; hasChanges compares the two when config is set.
FormAfter(cfgBefore, cfgAfter, cfgWasSet, form) ==
  IF cfgWasSet /\ cfgAfter # Empty THEN cfgAfter ELSE form
ChangesAfter(cfgAfter, formAfter, flag) ==
  IF cfgAfter # Empty THEN cfgAfter # formAfter ELSE flag

\* The request saveConfig(updates) sends, for the config and restaurantId
\* of the render the caller belongs to (lines 127-151).
SaveRequest(caller, cfg, rid, form, updates) ==
  [kind |-> IF HasId(cfg) THEN "update" ELSE "insert",
   stage |-> "sent", caller |-> caller, rid |-> rid, cfg |-> cfg, form |-> form,
   updates |-> updates, ok |-> FALSE, data |-> Empty]

\* saveConfig returns false at once: if (!restaurantId || !config)
SaveRefused(cfg, rid) == Falsy(rid) \/ cfg = Empty

\* The effect on [restaurantId]: loadWebsiteConfig() up to its request.
EffectLoad(s) ==
  /\ effectPending[s]
  /\ effectPending' = [effectPending EXCEPT ![s] = FALSE]
  /\ IF Falsy(restaurantId[s])
     THEN UNCHANGED <<loading, ops>>
     ELSE /\ FreeSlot(s) # 0
          /\ loading' = [loading EXCEPT ![s] = TRUE]
          /\ ops' = [ops EXCEPT ![s][FreeSlot(s)] =
                       [IdleOp EXCEPT !.kind = "load", !.stage = "sent",
                                      !.caller = "effect", !.rid = restaurantId[s]]]
  /\ UNCHANGED <<fnVars, pageVars, sqlVars, toasts, logs, returned, table, restaurants, restaurantId, config, saving, formData,
                 hasChanges, clicks>>

\* The store answers a load: select('*').eq('restaurant_id', ...).maybeSingle()
StoreSelect(s, i) ==
  /\ ops[s][i].kind = "load" /\ ops[s][i].stage = "sent"
  /\ LET r == SelectMaybeSingle(table, restaurants, SessionUser[s], ops[s][i].rid)
     IN  ops' = [ops EXCEPT ![s][i].stage = "answered", ![s][i].ok = r[1],
                            ![s][i].data = r[2]]
  /\ UNCHANGED <<fnVars, pageVars, sqlVars, toasts, logs, returned, table, restaurants, restaurantId, effectPending, config,
                 loading, saving, formData, hasChanges, clicks>>

\* The store answers an insert: insert({...}).select().single()
StoreInsert(s, i) ==
  /\ ops[s][i].kind = "insert" /\ ops[s][i].stage = "sent"
  /\ Cardinality(table) < MaxRows
  /\ LET o == ops[s][i]
         r == Insert(table, restaurants, SessionUser[s],
                     Merge(Merge(o.cfg, o.updates), [restaurant_id |-> o.rid]))
     IN  /\ table' = r[2]
         /\ ops' = [ops EXCEPT ![s][i].stage = "answered", ![s][i].ok = r[1],
                                ![s][i].data = r[3]]
  /\ UNCHANGED <<fnVars, pageVars, sqlVars, toasts, logs, returned, restaurants, restaurantId, effectPending, config, loading,
                 saving, formData, hasChanges, clicks>>

\* The store answers an update: update(updates).eq('id', config.id)
StoreUpdate(s, i) ==
  /\ ops[s][i].kind = "update" /\ ops[s][i].stage = "sent"
  /\ LET o == ops[s][i]
         r == Update(table, restaurants, SessionUser[s], o.cfg.id, o.updates)
     IN  /\ table' = r[2]
         /\ ops' = [ops EXCEPT ![s][i].stage = "answered", ![s][i].ok = r[1]]
  /\ UNCHANGED <<fnVars, pageVars, sqlVars, toasts, logs, returned, restaurants, restaurantId, effectPending, config, loading,
                 saving, formData, hasChanges, clicks>>

\* The store answers rpc('generate_website_subdomain', {restaurant_name})
StoreGenerate(s, i) ==
  /\ ops[s][i].kind = "gen" /\ ops[s][i].stage = "sent"
  /\ ops' = [ops EXCEPT ![s][i].stage = "answered", ![s][i].ok = TRUE,
                         ![s][i].data =
                           [slug |-> generate_website_subdomain(
                                       table, restaurants[ops[s][i].rid].name)]]
  /\ UNCHANGED <<fnVars, pageVars, sqlVars, toasts, logs, returned, table, restaurants, restaurantId, effectPending, config,
                 loading, saving, formData, hasChanges, clicks>>

\* The error of a request that never reached the store.
FetchError == [message |-> "Failed to fetch"]

\* A request fails (the network, the server): an error, nothing written.
RequestFails(s, i) ==
  /\ ops[s][i].kind # "idle" /\ ops[s][i].stage = "sent"
  /\ ops' = [ops EXCEPT ![s][i].stage = "answered", ![s][i].ok = FALSE,
                         ![s][i].data = FetchError]
  /\ UNCHANGED <<fnVars, pageVars, sqlVars, toasts, logs, returned, table, restaurants, restaurantId, effectPending, config,
                 loading, saving, formData, hasChanges, clicks>>

\* loadWebsiteConfig after its await (lines 104-124), then the effects.
LoadDone(s, i) ==
  /\ ops[s][i].kind = "load" /\ ops[s][i].stage = "answered"
  /\ LET o == ops[s][i]
         cfgAfter == IF ~o.ok THEN config[s]
                     ELSE IF o.data # Empty THEN o.data
                     ELSE Merge(defaultConfig, [restaurant_id |-> o.rid])
         formAfter == FormAfter(config[s], cfgAfter, o.ok, formData[s])
     IN  /\ config' = [config EXCEPT ![s] = cfgAfter]
         /\ formData' = [formData EXCEPT ![s] = formAfter]
         /\ hasChanges' = [hasChanges EXCEPT ![s] =
                             ChangesAfter(cfgAfter, formAfter, hasChanges[s])]
  /\ loading' = [loading EXCEPT ![s] = FALSE]
  /\ ops' = [ops EXCEPT ![s][i] = IdleOp]
  /\ IF ops[s][i].ok
     THEN UNCHANGED <<toasts, logs>>
     ELSE /\ logs' = [logs EXCEPT ![s] = Append(@, "Error loading website config:")]
          /\ toasts' = [toasts EXCEPT ![s] =
                          Append(@, "Impossible de charger la configuration du site")]
  /\ UNCHANGED <<fnVars, pageVars, sqlVars, returned, table, restaurants, restaurantId, effectPending, saving, clicks>>

\* saveConfig setting the config before the answer is known to be good.
SaveDoneNoRollback(s, i) ==
  /\ ops[s][i].kind \in {"insert", "update"} /\ ops[s][i].stage = "answered"
  /\ LET o == ops[s][i]
         updatedConfig == IF o.kind = "insert"
                          THEN Merge(Merge(o.cfg, o.updates), [id |-> Get(o.data, "id")])
                          ELSE Merge(o.cfg, o.updates)
         cfgAfter == updatedConfig
         formAfter == FormAfter(config[s], cfgAfter, o.ok, formData[s])
         flag == IF o.caller = "handleSave" THEN FALSE ELSE hasChanges[s]
     IN  /\ config' = [config EXCEPT ![s] = cfgAfter]
         /\ formData' = [formData EXCEPT ![s] = formAfter]
         /\ hasChanges' = [hasChanges EXCEPT ![s] =
                             IF o.ok THEN ChangesAfter(cfgAfter, formAfter, flag)
                             ELSE flag]
  /\ saving' = [saving EXCEPT ![s] = FALSE]
  /\ ops' = [ops EXCEPT ![s][i] = IdleOp]
  /\ IF ops[s][i].ok
     THEN /\ toasts' = [toasts EXCEPT ![s] = Append(@, "Configuration du site mise à jour")]
          /\ UNCHANGED logs
     ELSE /\ logs' = [logs EXCEPT ![s] = Append(@, "Error saving website config:")]
          /\ toasts' = [toasts EXCEPT ![s] =
                          Append(@, "Impossible de sauvegarder la configuration")]
  /\ returned' = [returned EXCEPT ![s] = IF ops[s][i].ok THEN "true" ELSE "false"]
  /\ UNCHANGED <<fnVars, pageVars, sqlVars, table, restaurants, restaurantId, effectPending, loading, clicks>>

\* saveConfig after its await (lines 141-173), then handleSave's
\* setHasChanges(false) when it is the caller, then the effects.
SaveDone(s, i) ==
  /\ ops[s][i].kind \in {"insert", "update"} /\ ops[s][i].stage = "answered"
  /\ LET o == ops[s][i]
         updatedConfig == IF o.kind = "insert"
                          THEN Merge(Merge(o.cfg, o.updates), [id |-> Get(o.data, "id")])
                          ELSE Merge(o.cfg, o.updates)
         cfgAfter == IF o.ok THEN updatedConfig ELSE config[s]
         formAfter == FormAfter(config[s], cfgAfter, o.ok, formData[s])
         flag == IF o.caller = "handleSave" THEN FALSE ELSE hasChanges[s]
     IN  /\ config' = [config EXCEPT ![s] = cfgAfter]
         /\ formData' = [formData EXCEPT ![s] = formAfter]
         /\ hasChanges' = [hasChanges EXCEPT ![s] =
                             IF o.ok THEN ChangesAfter(cfgAfter, formAfter, flag)
                             ELSE flag]
  /\ saving' = [saving EXCEPT ![s] = FALSE]
  /\ ops' = [ops EXCEPT ![s][i] = IdleOp]
  /\ IF ops[s][i].ok
     THEN /\ toasts' = [toasts EXCEPT ![s] = Append(@, "Configuration du site mise à jour")]
          /\ UNCHANGED logs
     ELSE /\ logs' = [logs EXCEPT ![s] = Append(@, "Error saving website config:")]
          /\ toasts' = [toasts EXCEPT ![s] =
                          Append(@, "Impossible de sauvegarder la configuration")]
  /\ returned' = [returned EXCEPT ![s] = IF ops[s][i].ok THEN "true" ELSE "false"]
  /\ UNCHANGED <<fnVars, pageVars, sqlVars, table, restaurants, restaurantId, effectPending, loading, clicks>>

\* The call saveConfig(updates) made from slot i of session s by a handler of
\* the render that saw cfg, rid and form: the request, or false at once.
CallSaveConfig(s, i, caller, cfg, rid, form, updates) ==
  IF SaveRefused(cfg, rid)
  THEN /\ ops' = [ops EXCEPT ![s][i] = IdleOp]
       /\ hasChanges' = [hasChanges EXCEPT ![s] =
                           IF caller = "handleSave" THEN FALSE ELSE @]
       /\ returned' = [returned EXCEPT ![s] = "false"]
       /\ UNCHANGED saving
  ELSE /\ ops' = [ops EXCEPT ![s][i] = SaveRequest(caller, cfg, rid, form, updates)]
       /\ saving' = [saving EXCEPT ![s] = TRUE]
       /\ UNCHANGED <<hasChanges, returned>>

\* The form is on screen and the user may still act.
CanAct(s) == ~loading[s] /\ clicks < MaxClicks

\* handleChange(field, value), then the effect on [config, formData].
HandleChange(s) ==
  /\ CanAct(s)
  /\ \E field \in DOMAIN Typed[s] : \E value \in Typed[s][field] :
       LET formAfter == Merge(formData[s], [f \in {field} |-> value])
       IN  /\ formData' = [formData EXCEPT ![s] = formAfter]
           /\ hasChanges' = [hasChanges EXCEPT ![s] =
                               ChangesAfter(config[s], formAfter, hasChanges[s])]
  /\ clicks' = clicks + 1
  /\ UNCHANGED <<fnVars, pageVars, sqlVars, toasts, logs, returned, table, restaurants, restaurantId, effectPending, config,
                 loading, saving, ops>>

\* handleSave: the Save button is shown with hasChanges, disabled by saving.
HandleSave(s) ==
  /\ CanAct(s) /\ hasChanges[s] /\ ~saving[s]
  /\ FreeSlot(s) # 0
  /\ CallSaveConfig(s, FreeSlot(s), "handleSave", config[s], restaurantId[s],
                    formData[s], formData[s])
  /\ clicks' = clicks + 1
  /\ UNCHANGED <<fnVars, pageVars, sqlVars, toasts, logs, table, restaurants, restaurantId, effectPending, config,
                 loading, formData>>

\* handleTogglePublish up to its first await; the button is disabled by
\* saving.
HandleTogglePublish(s) ==
  /\ CanAct(s) /\ ~saving[s]
  /\ FreeSlot(s) # 0
  /\ IF IsTrue(config[s], "is_published")
     THEN CallSaveConfig(s, FreeSlot(s), "toggle", config[s], restaurantId[s],
                         formData[s], [is_published |-> FALSE])
     ELSE IF Falsy(Get(formData[s], "subdomain"))
     THEN /\ ops' = [ops EXCEPT ![s][FreeSlot(s)] =
                       [IdleOp EXCEPT !.kind = "gen", !.stage = "sent",
                                      !.caller = "toggle", !.rid = restaurantId[s],
                                      !.cfg = config[s], !.form = formData[s]]]
          /\ UNCHANGED <<saving, hasChanges, returned>>
     ELSE CallSaveConfig(s, FreeSlot(s), "toggle", config[s], restaurantId[s],
                         formData[s], [is_published |-> TRUE])
  /\ clicks' = clicks + 1
  /\ UNCHANGED <<fnVars, pageVars, sqlVars, toasts, logs, table, restaurants, restaurantId, effectPending, config,
                 loading, formData>>

\* handleGenerateSubdomain up to its await.
HandleGenerateSubdomain(s) ==
  /\ CanAct(s)
  /\ FreeSlot(s) # 0
  /\ ops' = [ops EXCEPT ![s][FreeSlot(s)] =
               [IdleOp EXCEPT !.kind = "gen", !.stage = "sent",
                              !.caller = "handleGenerateSubdomain",
                              !.rid = restaurantId[s],
                              !.cfg = config[s], !.form = formData[s]]]
  /\ clicks' = clicks + 1
  /\ UNCHANGED <<fnVars, pageVars, sqlVars, toasts, logs, returned, table, restaurants, restaurantId, effectPending, config,
                 loading, saving, formData, hasChanges>>

\* generateSubdomain after its await (lines 182-187) and the caller's
\* continuation: handleTogglePublish saves with the config and the form of
\* the render of the click; handleGenerateSubdomain fills the field.
GenerateDone(s, i) ==
  /\ ops[s][i].kind = "gen" /\ ops[s][i].stage = "answered"
  /\ LET o == ops[s][i]
         subdomain == IF o.ok THEN o.data.slug ELSE null
     IN  IF o.caller = "toggle"
         THEN /\ IF ~Falsy(subdomain)
                 THEN CallSaveConfig(s, i, "toggle", o.cfg, o.rid, o.form,
                                     Merge(o.form, [subdomain |-> subdomain,
                                                    is_published |-> TRUE]))
                 ELSE CallSaveConfig(s, i, "toggle", o.cfg, o.rid, o.form,
                                     [is_published |-> TRUE])
              /\ UNCHANGED formData
         ELSE LET formAfter == IF Falsy(subdomain) THEN formData[s]
                               ELSE Merge(formData[s], [subdomain |-> subdomain])
              IN  /\ formData' = [formData EXCEPT ![s] = formAfter]
                  /\ hasChanges' = [hasChanges EXCEPT ![s] =
                                      ChangesAfter(config[s], formAfter, hasChanges[s])]
                  /\ ops' = [ops EXCEPT ![s][i] = IdleOp]
                  /\ UNCHANGED <<saving, returned>>
  /\ logs' = [logs EXCEPT ![s] = IF ops[s][i].ok THEN @
                                 ELSE Append(@, "Error generating subdomain:")]
  /\ UNCHANGED <<fnVars, pageVars, sqlVars, toasts, table, restaurants, restaurantId, effectPending, config,
                 loading, clicks>>

\* The restaurants of the model.
TheRestaurants ==
  [r1 |-> [owner_id |-> "u1", is_active |-> TRUE, name |-> "Chez Léa",
           description |-> null, description_fr |-> null,
           reservations_enabled |-> TRUE],
   r2 |-> [owner_id |-> "u1", is_active |-> TRUE, name |-> "Le Bistro",
           description |-> null, description_fr |-> null,
           reservations_enabled |-> TRUE]]

\* The builder's variables before any session exists.
HookAtRest ==
  /\ restaurantId = [s \in Sessions |-> null]
  /\ effectPending = [s \in Sessions |-> FALSE]
  /\ config = [s \in Sessions |-> Empty]
  /\ loading = [s \in Sessions |-> TRUE]
  /\ saving = [s \in Sessions |-> FALSE]
  /\ formData = [s \in Sessions |-> Empty]
  /\ hasChanges = [s \in Sessions |-> FALSE]
  /\ ops = [s \in Sessions |-> [i \in Slots |-> IdleOp]]
  /\ clicks = 0
  /\ toasts = [s \in Sessions |-> << >>]
  /\ logs = [s \in Sessions |-> << >>]
  /\ returned = [s \in Sessions |-> "nothing"]

\* No statement was sent to the table directly.
NoStatement == [uid |-> null, verb |-> "none", ok |-> FALSE, rows |-> {}]
SqlAtRest == statement = NoStatement /\ statements = 0

\* The page's variables before the page is opened.
PageAtRest ==
  /\ subdomainParam = undefined /\ pageData = Empty /\ pageLoading = TRUE
  /\ pageError = null /\ pageOps = {} /\ visits = 0

\* The request handler's variables when no request is handled.
FnAtRest ==
  /\ pc = "none" /\ method = "" /\ bodyOk = FALSE
  /\ prompt = undefined /\ language = undefined /\ apiKey = undefined
  /\ enhancedPrompt = undefined /\ fetchCalls = 0 /\ apiStatus = 0
  /\ imageUrl = undefined /\ error = undefined /\ response = NoResponse

\* The table when the sessions open: empty, or holding the row of r1 that
\* an earlier session saved.
InitialTables ==
  {{}, {Merge(ColumnDefaults, [id |-> "w1", restaurant_id |-> "r1"])}}

\* Both sessions mount the builder of restaurant r1: useState(null),
\* useState(true), useState(false), useState({}), useState(false).
Init ==
  /\ FnAtRest
  /\ PageAtRest
  /\ SqlAtRest
  /\ table \in InitialTables
  /\ restaurants = TheRestaurants
  /\ restaurantId = [s \in Sessions |-> "r1"]
  /\ effectPending = [s \in Sessions |-> TRUE]
  /\ config = [s \in Sessions |-> Empty]
  /\ loading = [s \in Sessions |-> TRUE]
  /\ saving = [s \in Sessions |-> FALSE]
  /\ formData = [s \in Sessions |-> Empty]
  /\ hasChanges = [s \in Sessions |-> FALSE]
  /\ ops = [s \in Sessions |-> [i \in Slots |-> IdleOp]]
  /\ clicks = 0
  /\ toasts = [s \in Sessions |-> << >>]
  /\ logs = [s \in Sessions |-> << >>]
  /\ returned = [s \in Sessions |-> "nothing"]

Next ==
  \E s \in Sessions :
    \/ EffectLoad(s)
    \/ HandleChange(s)
    \/ HandleSave(s)
    \/ HandleTogglePublish(s)
    \/ HandleGenerateSubdomain(s)
    \/ \E i \in Slots :
         \/ StoreSelect(s, i)
         \/ StoreInsert(s, i)
         \/ StoreUpdate(s, i)
         \/ StoreGenerate(s, i)
         \/ RequestFails(s, i)
         \/ LoadDone(s, i)
         \/ SaveDone(s, i)
         \/ GenerateDone(s, i)

\* The store and the builder sessions.
Spec == Init /\ [][Next]_vars

\* One session mounts the builder with a restaurantId that is a string or
\* null, the other with null.
InitLive ==
  /\ FnAtRest
  /\ PageAtRest
  /\ SqlAtRest
  /\ table \in InitialTables
  /\ restaurants = TheRestaurants
  /\ restaurantId \in {[s \in Sessions |-> IF s = "tabA" THEN rid ELSE null] :
                         rid \in {"r1", null}}
  /\ effectPending = [s \in Sessions |-> TRUE]
  /\ config = [s \in Sessions |-> Empty]
  /\ loading = [s \in Sessions |-> TRUE]
  /\ saving = [s \in Sessions |-> FALSE]
  /\ formData = [s \in Sessions |-> Empty]
  /\ hasChanges = [s \in Sessions |-> FALSE]
  /\ ops = [s \in Sessions |-> [i \in Slots |-> IdleOp]]
  /\ clicks = 0
  /\ toasts = [s \in Sessions |-> << >>]
  /\ logs = [s \in Sessions |-> << >>]
  /\ returned = [s \in Sessions |-> "nothing"]

\* The request in slot i of session s is answered, by the store or by an
\* error. RequestFails is enabled for every request that is out, the
\* generate call included, whose answer by the store is StoreGenerate.
Answer(s, i) ==
  \/ StoreSelect(s, i)
  \/ StoreInsert(s, i)
  \/ StoreUpdate(s, i)
  \/ RequestFails(s, i)

\* A step the program takes by itself: an effect runs, a request is
\* answered, an await resumes.
Settle ==
  \E s \in Sessions :
    \/ EffectLoad(s)
    \/ \E i \in Slots :
         \/ Answer(s, i)
         \/ LoadDone(s, i)
         \/ SaveDone(s, i)
         \/ GenerateDone(s, i)

\* Effects run, every request is answered in the end, and every await
\* resumes once its promise has settled. The user's actions being bounded,
\* no such step can be put off forever by others.
Fairness == WF_vars(Settle)

\* The store and the builder sessions, every request being answered.
SpecLive == InitLive /\ [][Next]_vars /\ Fairness

\* The row of r1 as first saved, and a published row of r2.
RowOfR1 == Merge(ColumnDefaults, [id |-> "w1", restaurant_id |-> "r1"])
RowOfR2 ==
  Merge(ColumnDefaults, [id |-> "w2", restaurant_id |-> "r2", subdomain |-> "bistro",
                         custom_domain |-> "bistro.fr", is_published |-> TRUE])

\* What the form of session s holds after the user typed one value.
TypedForms(s) ==
  UNION {{Merge(RowOfR1, [f \in {field} |-> value]) : value \in Typed[s][field]} :
           field \in DOMAIN Typed[s]}

\* Both sessions have loaded the row of r1 and typed into the form: the
\* state after loadWebsiteConfig, the effects and handleChange.
InitEdit ==
  /\ FnAtRest
  /\ PageAtRest
  /\ SqlAtRest
  /\ table \in {{RowOfR1}, {RowOfR1, RowOfR2}}
  /\ restaurants = TheRestaurants
  /\ restaurantId = [s \in Sessions |-> "r1"]
  /\ effectPending = [s \in Sessions |-> FALSE]
  /\ config = [s \in Sessions |-> RowOfR1]
  /\ loading = [s \in Sessions |-> FALSE]
  /\ saving = [s \in Sessions |-> FALSE]
  /\ formData \in {f \in [Sessions -> UNION {TypedForms(s) : s \in Sessions}] :
                     \A s \in Sessions : f[s] \in TypedForms(s)}
  /\ hasChanges = [s \in Sessions |-> TRUE]
  /\ ops = [s \in Sessions |-> [i \in Slots |-> IdleOp]]
  /\ clicks = 0
  /\ toasts = [s \in Sessions |-> << >>]
  /\ logs = [s \in Sessions |-> << >>]
  /\ returned = [s \in Sessions |-> "nothing"]

NextEdit ==
  \E s \in Sessions :
    \/ HandleChange(s)
    \/ HandleSave(s)
    \/ HandleTogglePublish(s)
    \/ HandleGenerateSubdomain(s)
    \/ \E i \in Slots :
         \/ StoreUpdate(s, i)
         \/ StoreGenerate(s, i)
         \/ RequestFails(s, i)
         \/ SaveDone(s, i)
         \/ GenerateDone(s, i)

\* The store and two sessions editing the same row.
SpecEdit == InitEdit /\ [][NextEdit]_vars

\* The builder is rendered with another restaurantId: the effect on
\* [restaurantId] runs loadWebsiteConfig of the new render up to its request;
\* config, formData and the calls in flight stay.
ChangeRestaurantId(s, rid) ==
  /\ ~Falsy(restaurantId[s]) /\ ~effectPending[s]
  /\ rid # restaurantId[s]
  /\ FreeSlot(s) # 0
  /\ restaurantId' = [restaurantId EXCEPT ![s] = rid]
  /\ loading' = [loading EXCEPT ![s] = TRUE]
  /\ ops' = [ops EXCEPT ![s][FreeSlot(s)] =
               [IdleOp EXCEPT !.kind = "load", !.stage = "sent",
                              !.caller = "effect", !.rid = rid]]
  /\ UNCHANGED <<fnVars, pageVars, sqlVars, toasts, logs, returned, table, restaurants, effectPending, config, saving,
                 formData, hasChanges, clicks>>

\* One session mounts the builder of r1, the other tab is not open; the
\* table holds the row of r1 and maybe the row of r2.
InitSwitch ==
  /\ FnAtRest
  /\ PageAtRest
  /\ SqlAtRest
  /\ table \in {{RowOfR1}, {RowOfR1, RowOfR2}}
  /\ restaurants = TheRestaurants
  /\ restaurantId = [s \in Sessions |-> IF s = "tabA" THEN "r1" ELSE null]
  /\ effectPending = [s \in Sessions |-> s = "tabA"]
  /\ config = [s \in Sessions |-> Empty]
  /\ loading = [s \in Sessions |-> TRUE]
  /\ saving = [s \in Sessions |-> FALSE]
  /\ formData = [s \in Sessions |-> Empty]
  /\ hasChanges = [s \in Sessions |-> FALSE]
  /\ ops = [s \in Sessions |-> [i \in Slots |-> IdleOp]]
  /\ clicks = 0
  /\ toasts = [s \in Sessions |-> << >>]
  /\ logs = [s \in Sessions |-> << >>]
  /\ returned = [s \in Sessions |-> "nothing"]

NextSwitch ==
  \E s \in Sessions :
    \/ EffectLoad(s)
    \/ ChangeRestaurantId(s, "r2")
    \/ HandleChange(s)
    \/ HandleSave(s)
    \/ HandleTogglePublish(s)
    \/ \E i \in Slots :
         \/ StoreSelect(s, i)
         \/ StoreInsert(s, i)
         \/ StoreUpdate(s, i)
         \/ StoreGenerate(s, i)
         \/ RequestFails(s, i)
         \/ LoadDone(s, i)
         \/ SaveDone(s, i)
         \/ GenerateDone(s, i)

\* The store and a builder whose restaurantId changes.
SpecSwitch == InitSwitch /\ [][NextSwitch]_vars

\* Rows of r2, a restaurant of the same name, whose subdomains are slugs of
\* the restaurants' names, with and without suffix.
SlugRows ==
  {Merge(ColumnDefaults, [id |-> c[1], restaurant_id |-> "r2", subdomain |-> c[2]]) :
     c \in {<<"w1", "hez-ea">>, <<"w2", "hez-ea-1">>, <<"w3", "hez-ea-2">>,
            <<"w4", "e-istro">>, <<"w5", "hez-ea-3">>}}

\* Both sessions have loaded a restaurant that has no row yet.
InitSlug ==
  /\ FnAtRest
  /\ PageAtRest
  /\ SqlAtRest
  /\ table \in SUBSET SlugRows
  /\ restaurants = [TheRestaurants EXCEPT !["r2"].name = "Chez Léa"]
  /\ restaurantId = [s \in Sessions |-> "r1"]
  /\ effectPending = [s \in Sessions |-> FALSE]
  /\ config = [s \in Sessions |-> Merge(defaultConfig, [restaurant_id |-> "r1"])]
  /\ loading = [s \in Sessions |-> FALSE]
  /\ saving = [s \in Sessions |-> FALSE]
  /\ formData = config
  /\ hasChanges = [s \in Sessions |-> FALSE]
  /\ ops = [s \in Sessions |-> [i \in Slots |-> IdleOp]]
  /\ clicks = 0
  /\ toasts = [s \in Sessions |-> << >>]
  /\ logs = [s \in Sessions |-> << >>]
  /\ returned = [s \in Sessions |-> "nothing"]

NextSlug ==
  \E s \in Sessions :
    \/ HandleGenerateSubdomain(s)
    \/ \E i \in Slots :
         \/ StoreGenerate(s, i)
         \/ RequestFails(s, i)
         \/ GenerateDone(s, i)

\* The store and the Generate button.
SpecSlug == InitSlug /\ [][NextSlug]_vars

\* Names a restaurant may bear: with capitals, accents, digits, runs of
\* other characters, and without any letter or digit.
RestaurantNames ==
  {"Chez Léa", "Le Bistro", "bistro", "café 21", "le  petit--café", "AB", "ÉÉ",
   "--", "", "a_b", " chez léa "}

\* Both sessions have loaded r1, whose name is any of the names, over an
\* empty table: generate_website_subdomain returns the base slug.
InitBaseSlug ==
  /\ FnAtRest
  /\ PageAtRest
  /\ SqlAtRest
  /\ table = {}
  /\ restaurants \in {[TheRestaurants EXCEPT !["r1"].name = n] : n \in RestaurantNames}
  /\ restaurantId = [s \in Sessions |-> "r1"]
  /\ effectPending = [s \in Sessions |-> FALSE]
  /\ config = [s \in Sessions |-> Merge(defaultConfig, [restaurant_id |-> "r1"])]
  /\ loading = [s \in Sessions |-> FALSE]
  /\ saving = [s \in Sessions |-> FALSE]
  /\ formData = config
  /\ hasChanges = [s \in Sessions |-> FALSE]
  /\ ops = [s \in Sessions |-> [i \in Slots |-> IdleOp]]
  /\ clicks = 0
  /\ toasts = [s \in Sessions |-> << >>]
  /\ logs = [s \in Sessions |-> << >>]
  /\ returned = [s \in Sessions |-> "nothing"]

\* The Generate button over restaurant names.
SpecBaseSlug == InitBaseSlug /\ [][NextSlug]_vars

---------------------------------------------------------------------------
(* Statements on restaurant_websites under its row-level policies *)

\* Bound: statements sent directly.
MaxStatements == 2

\* Who sends them: the two owners and a caller who is not signed in.
Callers == Users \cup {null}

\* What an UPDATE may set.
DirectUpdates == {[is_published |-> TRUE], [hero_title |-> "x"], [restaurant_id |-> "r2"]}

SqlSelect(uid) ==
  /\ statements < MaxStatements
  /\ statement' = [uid |-> uid, verb |-> "select", ok |-> TRUE,
                   rows |-> ReadableRows(table, restaurants, uid)]
  /\ statements' = statements + 1
  /\ UNCHANGED <<fnVars, storeVars, hookVars, pageVars>>

SqlInsert(uid, rid) ==
  /\ statements < MaxStatements
  /\ Cardinality(table) < MaxRows + 1
  /\ LET r == Insert(table, restaurants, uid, [restaurant_id |-> rid])
     IN  /\ table' = r[2]
         /\ statement' = [uid |-> uid, verb |-> "insert", ok |-> r[1], rows |-> {}]
  /\ statements' = statements + 1
  /\ UNCHANGED <<fnVars, restaurants, hookVars, pageVars>>

SqlUpdate(uid, rowId, updates) ==
  /\ statements < MaxStatements
  /\ LET r == Update(table, restaurants, uid, rowId, updates)
     IN  /\ table' = r[2]
         /\ statement' = [uid |-> uid, verb |-> "update", ok |-> r[1], rows |-> {}]
  /\ statements' = statements + 1
  /\ UNCHANGED <<fnVars, restaurants, hookVars, pageVars>>

SqlDelete(uid, rowId) ==
  /\ statements < MaxStatements
  /\ LET r == Delete(table, restaurants, uid, rowId)
     IN  /\ table' = r[2]
         /\ statement' = [uid |-> uid, verb |-> "delete", ok |-> r[1], rows |-> {}]
  /\ statements' = statements + 1
  /\ UNCHANGED <<fnVars, restaurants, hookVars, pageVars>>

\* r1 belongs to u1 and r2 to u2; r1's row is unpublished or published, r2's
\* is published.
InitPolicies ==
  /\ FnAtRest
  /\ HookAtRest
  /\ PageAtRest
  /\ SqlAtRest
  /\ table \in {{RowOfR1, RowOfR2}, {[RowOfR1 EXCEPT !.is_published = TRUE], RowOfR2},
                {RowOfR1}}
  /\ restaurants = [TheRestaurants EXCEPT !["r2"].owner_id = "u2"]

NextPolicies ==
  \E uid \in Callers :
    \/ SqlSelect(uid)
    \/ \E rid \in DOMAIN TheRestaurants : SqlInsert(uid, rid)
    \/ \E rowId \in {"w1", "w2", "w3"} :
         \/ \E updates \in DirectUpdates : SqlUpdate(uid, rowId, updates)
         \/ SqlDelete(uid, rowId)

\* The table and callers of every kind.
SpecPolicies == InitPolicies /\ [][NextPolicies]_vars

---------------------------------------------------------------------------
(* The public page RestaurantSite *)

\* Bound: routes the visitor opens on the page.
MaxVisits == 2

\* The values of the route parameter.
Subdomains == {undefined, "hez-ea", "bistro", "nowhere"}

\* A get_public_website call of the page: n numbers the calls.
PageOp(n, sub) == [n |-> n, sub |-> sub, stage |-> "sent", ok |-> FALSE, result |-> {}]

\* What the page renders (lines 63-80).
View ==
  IF pageLoading THEN "spinner"
  ELSE IF pageError # null \/ pageData = Empty THEN "404"
  ELSE "site"

\* The sections of the site in the JSX (lines 225-425) for a config and a
\* restaurant record; gallery_images is an array.
Sections(cfg, restaurant) ==
  {sec \in {"about", "menu", "gallery", "contact", "reservations"} :
     \/ sec = "about" /\ IsTrue(cfg, "about_enabled")
     \/ sec = "menu" /\ IsTrue(cfg, "menu_enabled")
     \/ /\ sec = "gallery" /\ IsTrue(cfg, "gallery_enabled")
        /\ "gallery_images" \in DOMAIN cfg /\ Len(cfg.gallery_images) > 0
     \/ sec = "contact" /\ IsTrue(cfg, "contact_enabled")
     \/ /\ sec = "reservations" /\ IsTrue(cfg, "reservations_enabled")
        /\ IsTrue(restaurant, "reservations_enabled")}

\* The sections on screen: none under the spinner and the 404 view.
Rendered ==
  IF View = "site"
  THEN Sections(pageData.website_config, pageData.restaurant_data)
  ELSE {}

\* The texts of the site in the JSX (lines 94-95, 189-235, 269-407) for a
\* config and a restaurant record: element -> text, for the elements that
\* are rendered.
PageTexts(cfg, restaurant) ==
  LET all ==
        [title |-> OrElse(Get(cfg, "meta_title"), Get(restaurant, "name")),
         meta_description |-> OrElse(Get(cfg, "meta_description"),
                                     Get(restaurant, "description")),
         hero_title |-> OrElse(Get(cfg, "hero_title"), Get(restaurant, "name")),
         hero_subtitle |-> OrElse(Get(cfg, "hero_subtitle"),
                                  Get(restaurant, "description")),
         hero_cta_text |-> OrElse(Get(cfg, "hero_cta_text"), "Réserver une table"),
         about_title |-> OrElse(Get(cfg, "about_title"), "À propos"),
         about_content |-> OrElse(OrElse(Get(cfg, "about_content"),
                                         Get(restaurant, "description_fr")),
                                  Get(restaurant, "description")),
         menu_title |-> OrElse(Get(cfg, "menu_title"), "Notre Menu"),
         gallery_title |-> OrElse(Get(cfg, "gallery_title"), "Galerie"),
         contact_title |-> OrElse(Get(cfg, "contact_title"), "Contact"),
         reservations_title |-> OrElse(Get(cfg, "reservations_title"), "Réservations")]
      secs == Sections(cfg, restaurant)
      shown == {"title", "meta_description", "hero_title"}
                 \cup (IF ~Falsy(all.hero_subtitle) THEN {"hero_subtitle"} ELSE {})
                 \cup (IF /\ IsTrue(cfg, "hero_cta_enabled")
                          /\ IsTrue(cfg, "reservations_enabled")
                          /\ IsTrue(restaurant, "reservations_enabled")
                       THEN {"hero_cta_text"} ELSE {})
                 \cup (IF "about" \in secs THEN {"about_title", "about_content"} ELSE {})
                 \cup (IF "menu" \in secs THEN {"menu_title"} ELSE {})
                 \cup (IF "gallery" \in secs THEN {"gallery_title"} ELSE {})
                 \cup (IF "contact" \in secs THEN {"contact_title"} ELSE {})
                 \cup (IF "reservations" \in secs THEN {"reservations_title"} ELSE {})
  IN  [e \in shown |-> all[e]]

\* The texts on screen: none under the spinner and the 404 view.
RenderedTexts ==
  IF View = "site"
  THEN PageTexts(pageData.website_config, pageData.restaurant_data)
  ELSE Empty

\* The route /:subdomain is opened, or its parameter changes: the effect on
\* [subdomain] runs loadWebsite up to its await.
Navigate(sub) ==
  /\ visits < MaxVisits
  /\ visits = 0 \/ sub # subdomainParam
  /\ subdomainParam' = sub
  /\ visits' = visits + 1
  /\ IF Falsy(sub)
     THEN /\ pageError' = "Site non trouvé"
          /\ pageLoading' = FALSE
          /\ UNCHANGED pageOps
     ELSE /\ pageOps' = pageOps \cup {PageOp(visits + 1, sub)}
          /\ UNCHANGED <<pageError, pageLoading>>
  /\ UNCHANGED <<fnVars, storeVars, hookVars, sqlVars, pageData>>

\* The call numbered n, when it is in flight.
InFlight(n) == \E op \in pageOps : op.n = n
CallOf(n) == CHOOSE op \in pageOps : op.n = n

\* The store answers rpc('get_public_website', {website_subdomain}).
SiteAnswer(n) ==
  /\ InFlight(n) /\ CallOf(n).stage = "sent"
  /\ pageOps' = (pageOps \ {CallOf(n)}) \cup
                  {[CallOf(n) EXCEPT !.stage = "answered", !.ok = TRUE,
                                     !.result = get_public_website(table, restaurants,
                                                                   CallOf(n).sub)]}
  /\ UNCHANGED <<fnVars, storeVars, hookVars, sqlVars, subdomainParam, pageData, pageLoading,
                 pageError, visits>>

\* The call fails: fetchError.
SiteRequestFails(n) ==
  /\ InFlight(n) /\ CallOf(n).stage = "sent"
  /\ pageOps' = (pageOps \ {CallOf(n)}) \cup
                  {[CallOf(n) EXCEPT !.stage = "answered", !.ok = FALSE]}
  /\ UNCHANGED <<fnVars, storeVars, hookVars, sqlVars, subdomainParam, pageData, pageLoading,
                 pageError, visits>>

\* loadWebsite after its await (lines 44-57); result[0] is the one record,
\* subdomain being unique.
SiteLoadDone(n) ==
  /\ InFlight(n) /\ CallOf(n).stage = "answered"
  /\ IF ~CallOf(n).ok
     THEN /\ pageError' = "Erreur lors du chargement du site"
          /\ UNCHANGED pageData
     ELSE IF CallOf(n).result # {}
     THEN /\ pageData' = CHOOSE rec \in CallOf(n).result : TRUE
          /\ UNCHANGED pageError
     ELSE /\ pageError' = "Site non trouvé"
          /\ UNCHANGED pageData
  /\ pageLoading' = FALSE
  /\ pageOps' = pageOps \ {CallOf(n)}
  /\ UNCHANGED <<fnVars, storeVars, hookVars, sqlVars, subdomainParam, visits>>

\* The rows the page may find: the row of r1 published or not, or published
\* without a subdomain, and the row of r2 if it exists.
SiteRowsOfR1 ==
  {Merge(ColumnDefaults, [id |-> "w1", restaurant_id |-> "r1", subdomain |-> c[1],
                          is_published |-> c[2]]) :
     c \in {<<"hez-ea", TRUE>>, <<"hez-ea", FALSE>>, <<null, TRUE>>}}
SiteRowsOfR2 ==
  {Merge(ColumnDefaults, [id |-> "w2", restaurant_id |-> "r2", subdomain |-> "bistro",
                          is_published |-> TRUE])}
SiteTables == {{a} \cup b : a \in SiteRowsOfR1, b \in SUBSET SiteRowsOfR2}

\* The restaurants, each active or not.
SiteRestaurants ==
  {[r \in DOMAIN TheRestaurants |-> [TheRestaurants[r] EXCEPT !.is_active = act[r]]] :
     act \in [DOMAIN TheRestaurants -> BOOLEAN]}

\* useState(null), useState(true), useState(null) over a store in one of
\* the states above.
InitSite ==
  /\ FnAtRest
  /\ HookAtRest
  /\ PageAtRest
  /\ SqlAtRest
  /\ table \in SiteTables
  /\ restaurants \in SiteRestaurants

NextSite ==
  \/ \E sub \in Subdomains : Navigate(sub)
  \/ \E n \in 1..MaxVisits :
       \/ SiteAnswer(n)
       \/ SiteRequestFails(n)
       \/ SiteLoadDone(n)

\* The store and one visitor's page.
SpecSite == InitSite /\ [][NextSite]_vars

\* The section flags of a row, and its gallery.
SectionFlags == {"about_enabled", "menu_enabled", "gallery_enabled", "contact_enabled",
                 "reservations_enabled"}
Galleries == {<< >>, <<"salle.jpg">>}

\* The published row of r1 with every choice of flags and gallery.
RenderTables ==
  {{Merge(Merge(ColumnDefaults, flags),
          [id |-> "w1", restaurant_id |-> "r1", subdomain |-> "hez-ea",
           is_published |-> TRUE, gallery_images |-> g])} :
     flags \in [SectionFlags -> BOOLEAN], g \in Galleries}

\* r1 taking reservations or not.
RenderRestaurants ==
  {[TheRestaurants EXCEPT !["r1"].reservations_enabled = b] : b \in BOOLEAN}

InitRender ==
  /\ FnAtRest
  /\ HookAtRest
  /\ PageAtRest
  /\ SqlAtRest
  /\ table \in RenderTables
  /\ restaurants \in RenderRestaurants

\* The page over one published site.
SpecRender == InitRender /\ [][NextSite]_vars

\* The text columns of a row, in three groups that are set, empty or NULL
\* together, and what a set column holds.
TextGroup ==
  [meta_title |-> 1, meta_description |-> 2, hero_title |-> 1, hero_subtitle |-> 2,
   hero_cta_text |-> 3, about_title |-> 3, about_content |-> 2, menu_title |-> 3,
   gallery_title |-> 1, contact_title |-> 2, reservations_title |-> 3]
TextColumns == DOMAIN TextGroup
TextKinds == {"null", "empty", "set"}
TextOf(col, kind) ==
  CASE kind = "null" -> null [] kind = "empty" -> "" [] OTHER -> "cfg " \o col

\* The published row of r1 with every section on and every choice of texts.
TextTables ==
  {{Merge(Merge(Merge(ColumnDefaults, [f \in SectionFlags |-> TRUE]),
                [col \in TextColumns |-> TextOf(col, kinds[TextGroup[col]])]),
          [id |-> "w1", restaurant_id |-> "r1", subdomain |-> "hez-ea",
           is_published |-> TRUE, hero_cta_enabled |-> TRUE,
           gallery_images |-> <<"salle.jpg">>])} :
     kinds \in [1..3 -> TextKinds]}

\* r1 with and without descriptions.
TextRestaurants ==
  {[TheRestaurants EXCEPT !["r1"].description = d, !["r1"].description_fr = dfr] :
     d \in {null, "", "Une table"}, dfr \in {null, "", "Une table d'hôtes"}}

InitTexts ==
  /\ FnAtRest
  /\ HookAtRest
  /\ PageAtRest
  /\ SqlAtRest
  /\ table \in TextTables
  /\ restaurants \in TextRestaurants

\* The page over one published site and its texts.
SpecTexts == InitTexts /\ [][NextSite]_vars

---------------------------------------------------------------------------
(* The specifications of the request handler *)

\* Requests the function may receive.
ServePrompts == {undefined, anObject, "a cat", "Logo minimal"}
ServeLanguages == {undefined, "", "en", "fr"}

InitServe ==
  /\ pc = "received"
  /\ method \in {"OPTIONS", "POST", "GET"}
  /\ bodyOk \in BOOLEAN
  /\ prompt \in ServePrompts
  /\ language \in ServeLanguages
  /\ apiKey \in {undefined, "", "sk-key"}
  /\ enhancedPrompt = undefined
  /\ fetchCalls = 0
  /\ apiStatus = 0
  /\ imageUrl = undefined
  /\ error = undefined
  /\ response = NoResponse
  /\ table = {} /\ restaurants = TheRestaurants
  /\ HookAtRest
  /\ PageAtRest
  /\ SqlAtRest

NextServe ==
  \/ HandleOptions
  \/ ParseBody
  \/ CallApi
  \/ FetchRejects
  \/ FetchNotOk
  \/ FetchOk

\* The handler of one request, from its arrival to its response.
SpecServe == InitServe /\ [][NextServe]_vars

\* Prompts for the study of enhancePrompt: every keyword of every pattern,
\* and phrases of at most MaxWords words.
PromptWords == {"Painting", "logo", "Minimal", "3D", "food", "photo", "cat"}
RECURSIVE Phrases(_)
Phrases(n) ==
  IF n <= 1 THEN PromptWords
  ELSE PromptWords \cup {w \o " " \o ph : w \in PromptWords, ph \in Phrases(n - 1)}
Prompts ==
  {""} \cup Phrases(MaxWords) \cup ArtisticPattern \cup PhotoPattern
       \cup FoodPattern \cup LogoPattern \cup ThreeDPattern \cup MinimalPattern
Languages == {undefined, "", "en", "fr", "EN", "es"}

InitEnhance ==
  /\ pc = "received"
  /\ method = "POST"
  /\ bodyOk = TRUE
  /\ prompt \in Prompts
  /\ language \in Languages
  /\ apiKey = "sk-key"
  /\ enhancedPrompt = undefined
  /\ fetchCalls = 0
  /\ apiStatus = 0
  /\ imageUrl = undefined
  /\ error = undefined
  /\ response = NoResponse
  /\ table = {} /\ restaurants = TheRestaurants
  /\ HookAtRest
  /\ PageAtRest
  /\ SqlAtRest

NextEnhance ==
  \/ ParseBody
  \/ CallApi
  \/ FetchRejects

\* The handler up to its call of the API, over many prompts and languages.
SpecEnhance == InitEnhance /\ [][NextEnhance]_vars

---------------------------------------------------------------------------
(* Properties of enhancePrompt *)

\* String.prototype.endsWith
endsWith(s, p) == Len(s) >= Len(p) /\ SubSeq(s, Len(s) - Len(p) + 1, Len(s)) = p

\* The categories in the order of precedence the specification states.
CategoryOrder == <<"artistic", "logo", "render3d", "minimal", "food", "photo">>

PatternOf ==
  [artistic |-> ArtisticPattern, logo |-> LogoPattern, render3d |-> ThreeDPattern,
   minimal |-> MinimalPattern, food |-> FoodPattern, photo |-> PhotoPattern]

\* The English templates of each category: <<prefix, suffix>>.
EnglishTemplates ==
  [artistic |-> <<"Beautiful artistic creation, masterful technique: ",
                  ". Rich details, expressive style, museum quality artwork.">>,
   logo     |-> <<"Professional logo design, clean vector style: ",
                  ". Modern, memorable, scalable design with perfect symmetry.">>,
   render3d |-> <<"High-quality 3D render, cinematic lighting: ",
                  ". Octane render quality, realistic materials, dramatic composition.">>,
   minimal  |-> <<"Clean minimal design: ",
                  ". Simple, elegant, balanced composition with purposeful whitespace.">>,
   food     |-> <<"Professional food photography, appetizing presentation: ",
                  ". Gourmet styling, perfect lighting, mouth-watering details, 8K quality.">>,
   photo    |-> <<"Professional photography, ultra high resolution: ",
                  ". Perfect lighting, sharp focus, vivid colors, 8K quality.">>,
   generic  |-> <<"High quality, detailed image: ",
                  ". Professional quality, vivid colors, excellent composition, 4K resolution.">>]

\* The French templates of each category: <<prefix, suffix>>.
FrenchTemplates ==
  [artistic |-> <<"Belle création artistique, technique maîtrisée: ",
                  ". Détails riches, style expressif, qualité musée.">>,
   logo     |-> <<"Design de logo professionnel, style vectoriel épuré: ",
                  ". Moderne, mémorable, design scalable avec symétrie parfaite.">>,
   render3d |-> <<"Rendu 3D haute qualité, éclairage cinématique: ",
                  ". Qualité Octane render, matériaux réalistes, composition dramatique.">>,
   minimal  |-> <<"Design minimaliste épuré: ",
                  ". Simple, élégant, composition équilibrée avec espaces blancs intentionnels.">>,
   food     |-> <<"Photographie culinaire professionnelle, présentation appétissante: ",
                  ". Style gastronomique, éclairage parfait, détails savoureux, qualité 8K.">>,
   photo    |-> <<"Photographie professionnelle, ultra haute résolution: ",
                  ". Éclairage parfait, mise au point nette, couleurs vives, qualité 8K.">>,
   generic  |-> <<"Image de haute qualité, détaillée: ",
                  ". Qualité professionnelle, couleurs vives, excellente composition, résolution 4K.">>]

\* Whether a keyword of the category occurs in the lower-cased prompt.
Occurs(cat, p) == \E kw \in PatternOf[cat] : Includes(toLowerCase(p), kw)

\* The first category of CategoryOrder occurring in p, generic when none does.
FirstCategory(p) ==
  LET hits == {i \in 1..Len(CategoryOrder) : Occurs(CategoryOrder[i], p)}
  IN  IF hits = {} THEN "generic"
      ELSE CategoryOrder[CHOOSE i \in hits : \A j \in hits : i <= j]

\* The prompt has been enhanced (the handler is past line 90).
Enhanced == enhancedPrompt # undefined

\* C1: the enhanced prompt is prefix + the original prompt + suffix, with the
\* templates of the first category (artistic, logo, 3D, minimal, food, photo)
\* whose pattern occurs in the lower-cased prompt, the generic ones when none
\* occurs; so logo wins over minimal and an artistic prompt begins with the
\* artistic prefix.
C1_PrefixPromptSuffix ==
  Enhanced =>
    LET t == IF language = "en" THEN EnglishTemplates[FirstCategory(prompt)]
             ELSE FrenchTemplates[FirstCategory(prompt)]
    IN  /\ enhancedPrompt = t[1] \o prompt \o t[2]
        /\ (Occurs("logo", prompt) /\ Occurs("minimal", prompt) /\ ~Occurs("artistic", prompt)
              => startsWith(enhancedPrompt,
                            IF language = "en" THEN EnglishTemplates.logo[1]
                            ELSE FrenchTemplates.logo[1]))
        /\ (Occurs("artistic", prompt)
              => startsWith(enhancedPrompt,
                            IF language = "en" THEN EnglishTemplates.artistic[1]
                            ELSE FrenchTemplates.artistic[1]))

\* A prompt with a logo and a minimal keyword, in capitals, was enhanced with
\* the logo templates around the prompt as typed.
C1_Witness ==
  /\ prompt = "logo Minimal" /\ language = "en"
  /\ enhancedPrompt = "Professional logo design, clean vector style: logo Minimal"
                       \o ". Modern, memorable, scalable design with perfect symmetry."

EnglishPrefixes == {EnglishTemplates[c][1] : c \in DOMAIN EnglishTemplates}
EnglishSuffixes == {EnglishTemplates[c][2] : c \in DOMAIN EnglishTemplates}
FrenchPrefixes == {FrenchTemplates[c][1] : c \in DOMAIN FrenchTemplates}
FrenchSuffixes == {FrenchTemplates[c][2] : c \in DOMAIN FrenchTemplates}

\* C10: with language "en" the enhanced prompt begins and ends with English
\* templates and with no French one; with any other language value (missing
\* and empty included) it begins and ends with French templates and with no
\* English one.
C10_LanguageOfTemplates ==
  Enhanced =>
    LET mine   == IF language = "en" THEN <<EnglishPrefixes, EnglishSuffixes>>
                  ELSE <<FrenchPrefixes, FrenchSuffixes>>
        others == IF language = "en" THEN <<FrenchPrefixes, FrenchSuffixes>>
                  ELSE <<EnglishPrefixes, EnglishSuffixes>>
    IN  /\ \E pre \in mine[1], suf \in mine[2] : enhancedPrompt = pre \o prompt \o suf
        /\ \A pre \in others[1] : ~startsWith(enhancedPrompt, pre)
        /\ \A suf \in others[2] : ~endsWith(enhancedPrompt, suf)

\* A request whose language is "EN" (not "en") was enhanced in French.
C10_Witness ==
  /\ language = "EN" /\ prompt = "cat"
  /\ enhancedPrompt = "Image de haute qualité, détaillée: cat"
       \o ". Qualité professionnelle, couleurs vives, excellente composition, résolution 4K."

\* C28: a prompt that is exactly one keyword of a category's pattern is
\* enhanced with the templates of that keyword's own category.
C28_KeywordOwnCategory ==
  Enhanced =>
    \A cat \in DOMAIN PatternOf :
      prompt \in PatternOf[cat] =>
        LET t == IF language = "en" THEN EnglishTemplates[cat] ELSE FrenchTemplates[cat]
        IN  enhancedPrompt = t[1] \o prompt \o t[2]

---------------------------------------------------------------------------
(* Properties of the request handler *)

\* The handler answered a request that is not a preflight.
Answered == pc = "done" /\ method # "OPTIONS"

\* The response's body is {error: <a message>, success: false}.
IsFailureBody(body) ==
  /\ DOMAIN body = {"error", "success"}
  /\ body.success = FALSE
  /\ body.error \notin {"", undefined}

\* C5: a non-success API status gives 429 for 429, 402 for 402 and 500 for
\* any other; a success status without an extractable image URL, and any
\* error caught while handling the request, give 500; each of these
\* responses has success false and an error message.
C5_FailureStatuses ==
  Answered =>
    /\ (apiStatus # 0 /\ apiStatus \notin 200..299
          => /\ response.status = (IF apiStatus \in {402, 429} THEN apiStatus ELSE 500)
             /\ IsFailureBody(response.body))
    /\ (apiStatus \in 200..299 /\ imageUrl \in {undefined, null, ""}
          => response.status = 500 /\ IsFailureBody(response.body))
    /\ (error # undefined
          => response.status = 500 /\ IsFailureBody(response.body))
    /\ (response.status # 200 => IsFailureBody(response.body))

\* The API answered 402 and the function answered 402 with its message.
C5_Witness ==
  /\ Answered /\ apiStatus = 402 /\ response.status = 402
  /\ response.body.success = FALSE
  /\ response.body.error = "Payment required, please add credits."

\* C6: every response with success true has status 200 and an imageBase64
\* field holding a text, whatever image URL the API returned.
C6_SuccessHasImage ==
  (pc = "done" /\ "success" \in DOMAIN response.body /\ response.body.success)
    => /\ response.status = 200
       /\ "imageBase64" \in DOMAIN response.body
       /\ response.body.imageBase64 # undefined

\* The data-URI prefixes of the form data:<type>;base64, among UrlHeads.
DataUriPrefixes == {h \in UrlHeads : endsWith(h, ";base64,")}

\* C7: when the image URL starts with data:<type>;base64, the returned
\* imageBase64 is exactly the text after that prefix; when it does not start
\* with data: the returned imageBase64 is the URL unchanged.
C7_Base64AfterPrefix ==
  (pc = "done" /\ response.status = 200 /\ method # "OPTIONS")
    => /\ \A h \in DataUriPrefixes :
            startsWith(imageUrl, h)
              => /\ "imageBase64" \in DOMAIN response.body
                 /\ response.body.imageBase64 = SubSeq(imageUrl, Len(h) + 1, Len(imageUrl))
       /\ (~startsWith(imageUrl, "data:")
              => /\ "imageBase64" \in DOMAIN response.body
                 /\ response.body.imageBase64 = imageUrl)

\* C8: without a configured LOVABLE_API_KEY no call of the image API is made
\* and the request is answered 500 with success false.
C8_NoKeyNoCall ==
  apiKey \in {undefined, ""} =>
    /\ fetchCalls = 0
    /\ pc # "fetching"
    /\ (Answered => response.status = 500 /\ IsFailureBody(response.body))

\* A well-formed request was answered 500 for the missing credential, with
\* no call made.
C8_Witness ==
  /\ Answered /\ bodyOk /\ prompt = "a cat" /\ apiKey = undefined
  /\ error = "LOVABLE_API_KEY is not configured"
  /\ response.status = 500 /\ fetchCalls = 0

\* C9: one request makes at most one call of the image API, whatever its
\* outcome, and an OPTIONS request makes none and is answered with the CORS
\* headers.
C9_AtMostOneCall ==
  /\ fetchCalls <= 1
  /\ (pc = "done" /\ response.status # 200 /\ apiStatus # 0 => fetchCalls = 1)
  /\ (method = "OPTIONS"
        => /\ fetchCalls = 0
           /\ (pc = "done" => response.cors /\ response.body = NoBody))

\* The one call failed (fetch rejected, or the API answered 503) and the
\* request was answered without another call.
C9_Witness ==
  /\ pc = "done" /\ fetchCalls = 1
  /\ error \in {"error sending request", "Lovable AI error: 503"}
  /\ response.status = 500

---------------------------------------------------------------------------
(* Properties of the builder sessions *)

\* The rows of the table for restaurant r.
RowsOf(r) == {row \in table : row.restaurant_id = r}

\* C2: whatever the sessions of a restaurant did, the table holds at most one
\* row for that restaurant.
C2_OneRowPerRestaurant ==
  \A r \in DOMAIN restaurants : Cardinality(RowsOf(r)) <= 1

\* In this step session s calls saveConfig from slot i and the request
\* leaves.
SaveCalled(s, i) ==
  /\ ops[s][i].kind \notin {"insert", "update"}
  /\ ops'[s][i].kind \in {"insert", "update"}

\* In this step the saveConfig call in slot i of session s returns true.
SaveSucceeded(s, i) ==
  /\ ops[s][i].kind \in {"insert", "update"}
  /\ ops[s][i].stage = "answered" /\ ops[s][i].ok
  /\ ops'[s][i].kind = "idle"

\* C3: saveConfig called while the hook's config has no row id inserts, and
\* after it succeeds the hook's config carries the non-null id of the
\* inserted row; called while the config has a row id it updates the row
\* with that id, and the config's id is the same before and after.
C3_SaveByRowId ==
  [][\A s \in Sessions : \A i \in Slots :
       /\ SaveCalled(s, i) =>
            IF HasId(config[s])
            THEN /\ ops'[s][i].kind = "update"
                 /\ ops'[s][i].cfg.id = config[s].id
            ELSE ops'[s][i].kind = "insert"
       /\ SaveSucceeded(s, i) =>
            IF ops[s][i].kind = "insert"
            THEN /\ HasId(config'[s])
                 /\ config'[s].id = ops[s][i].data.id
                 /\ \E row \in table : row.id = config'[s].id
            ELSE /\ HasId(config[s])
                 /\ config'[s].id = config[s].id]_vars

\* In this step the store answers the call in slot i of session s.
StoreAnswered(s, i) ==
  /\ ops[s][i].stage = "sent" /\ ops'[s][i].stage = "answered"
  /\ ops'[s][i].data # FetchError

\* In this step loadWebsiteConfig of session s returns having found no row.
LoadFoundNoRow(s, i) ==
  /\ ops[s][i].kind = "load" /\ ops[s][i].stage = "answered"
  /\ ops[s][i].ok /\ ops[s][i].data = Empty
  /\ ops'[s][i].kind = "idle"

\* C12: a load that finds no row for the restaurant id reports no error,
\* writes nothing to the store and sets the hook's config to the default
\* configuration with that restaurant id, no row id and is_published false;
\* rows appear in the store only by a successful save.
C12_NoRowGivesDefault ==
  [][/\ \A s \in Sessions : \A i \in Slots :
          /\ (ops[s][i].kind = "load" /\ StoreAnswered(s, i)) =>
               /\ table' = table
               /\ (ops'[s][i].ok /\ ops'[s][i].data = Empty)
                    => RowsOf(ops[s][i].rid) = {}
          /\ LoadFoundNoRow(s, i) =>
               /\ table' = table
               /\ toasts'[s] = toasts[s] /\ logs'[s] = logs[s]
               /\ config'[s] = Merge(defaultConfig, [restaurant_id |-> ops[s][i].rid])
               /\ ~HasId(config'[s])
               /\ config'[s].is_published = FALSE
               /\ ~loading'[s]
     /\ table' # table =>
          \E s \in Sessions : \E i \in Slots :
            /\ ops[s][i].kind \in {"insert", "update"}
            /\ StoreAnswered(s, i) /\ ops'[s][i].ok]_vars

\* A session has loaded the empty table: its config is the default for r1,
\* nothing is stored and nothing was reported.
C12_Witness ==
  /\ table = {} /\ ~loading["tabA"]
  /\ config["tabA"] = Merge(defaultConfig, [restaurant_id |-> "r1"])
  /\ toasts["tabA"] = << >> /\ logs["tabA"] = << >>

\* In this step the hook of session s handles the failure of the call in
\* slot i.
FailureHandled(s, i) ==
  /\ ops[s][i].stage = "answered" /\ ~ops[s][i].ok
  /\ ops'[s][i] # ops[s][i]

\* C13: every failed store operation of the hook (load, save,
\* generateSubdomain) is shown to the user as a toast and is logged.
C13_FailureToastAndLog ==
  [][\A s \in Sessions : \A i \in Slots :
       FailureHandled(s, i) =>
         /\ Len(toasts'[s]) = Len(toasts[s]) + 1
         /\ Len(logs'[s]) = Len(logs[s]) + 1]_vars

\* In this step the saveConfig call in slot i of session s returns after
\* its request failed.
SaveFailed(s, i) ==
  /\ ops[s][i].kind \in {"insert", "update"}
  /\ ops[s][i].stage = "answered" /\ ~ops[s][i].ok
  /\ ops'[s][i] # ops[s][i]

\* C14: a save that fails sends no further request, returns false, leaves
\* the hook's config (its id included) and the store as they were, and
\* saving is false when it returns.
C14_FailedSaveChangesNothing ==
  [][\A s \in Sessions : \A i \in Slots :
       SaveFailed(s, i) =>
         /\ ops'[s][i] = IdleOp
         /\ \A j \in Slots \ {i} : ops'[s][j] = ops[s][j]
         /\ table' = table
         /\ returned'[s] = "false"
         /\ config'[s] = config[s]
         /\ Get(config'[s], "id") = Get(config[s], "id")
         /\ ~saving'[s]]_vars

\* A save of session tabA failed: it returned false, an error toast is
\* shown, the config still has no id and nothing is stored or in flight.
C14_Witness ==
  /\ returned["tabA"] = "false"
  /\ toasts["tabA"] = <<"Impossible de sauvegarder la configuration">>
  /\ config["tabA"] # Empty /\ ~HasId(config["tabA"])
  /\ table = {} /\ ~saving["tabA"]
  /\ \A i \in Slots : ops["tabA"][i] = IdleOp

\* The calls of the hook of session s that have not returned yet.
Outstanding(s) == {i \in Slots : ops[s][i].kind # "idle"}

\* C15: a user action or a load has at most one call outstanding (a slot
\* holds one call), and a hook or page instance has at most one call
\* outstanding at any time.
C15_OneCallOutstanding ==
  /\ \A s \in Sessions : Cardinality(Outstanding(s)) <= 1
  /\ Cardinality(pageOps) <= 1

\* The columns on which the table has a constraint.
KeyColumns == {"id", "restaurant_id", "subdomain", "custom_domain"}

\* In this step the store handles the update in slot i of session s, which
\* leaves the key columns of its row as they are.
DisplayUpdate(s, i) ==
  /\ ops[s][i].kind = "update" /\ StoreAnswered(s, i)
  /\ \E row \in table :
       /\ row.id = ops[s][i].cfg.id
       /\ \A k \in KeyColumns \cap DOMAIN ops[s][i].updates :
            ops[s][i].updates[k] = row[k]

\* C16: when sessions that loaded the same row save the same field, no
\* save is rejected and the persisted value is the one of the update the
\* store handled last: every such update is accepted and overwrites the row
\* with its values, and nothing else changes the row.
C16_LastWriterWins ==
  [][/\ \A s \in Sessions : \A i \in Slots :
          DisplayUpdate(s, i) =>
            /\ ops'[s][i].ok
            /\ \E row \in table' :
                 /\ row.id = ops[s][i].cfg.id
                 /\ \A k \in DOMAIN ops[s][i].updates \cap Columns :
                      row[k] = ops[s][i].updates[k]
     /\ table' # table =>
          \E s \in Sessions : \E i \in Slots :
            ops[s][i].kind = "update" /\ StoreAnswered(s, i)]_vars

\* Both sessions saved a title for the row they had loaded, both saves
\* returned true, and the row holds the title of tabA, handled last, while
\* tabB shows its own.
C16_Witness ==
  /\ returned["tabA"] = "true" /\ returned["tabB"] = "true"
  /\ config["tabA"].hero_title = "Bienvenue" /\ config["tabB"].hero_title = "Bonjour"
  /\ \E row \in table : row.id = "w1" /\ row.hero_title = "Bienvenue"

\* The row the save in slot i of session s asks the store to write.
RowAsked(s, i) ==
  IF ops[s][i].kind = "insert"
  THEN Merge(Merge(ColumnDefaults, Merge(ops[s][i].cfg, ops[s][i].updates)),
             [id |-> "new"])
  ELSE Merge(CHOOSE row \in table : row.id = ops[s][i].cfg.id, ops[s][i].updates)

\* The save in slot i of session s, if applied, would give two rows the same
\* subdomain or the same custom_domain.
WouldCollide(s, i) ==
  /\ ops[s][i].kind \in {"insert", "update"}
  /\ ops[s][i].kind = "update" => \E row \in table : row.id = ops[s][i].cfg.id
  /\ \E other \in table :
       /\ other.id # RowAsked(s, i).id
       /\ \/ RowAsked(s, i).subdomain # null /\ RowAsked(s, i).subdomain = other.subdomain
          \/ /\ RowAsked(s, i).custom_domain # null
             /\ RowAsked(s, i).custom_domain = other.custom_domain

\* C17: no two rows ever share a non-null subdomain or a non-null
\* custom_domain, and a save that would make them do so fails and leaves the
\* table unchanged.
C17_UniqueDomains ==
  /\ [](\A a \in table : \A b \in table :
          a # b => /\ a.subdomain # null => a.subdomain # b.subdomain
                   /\ a.custom_domain # null => a.custom_domain # b.custom_domain)
  /\ [][\A s \in Sessions : \A i \in Slots :
          (WouldCollide(s, i) /\ ops[s][i].stage = "sent"
             /\ ops'[s][i].stage = "answered")
            => ~ops'[s][i].ok /\ table' = table]_vars

\* tabB saved the custom domain of the other restaurant's row: the save
\* returned false and the row of r1 is as it was.
C17_Witness ==
  /\ formData["tabB"].custom_domain = "bistro.fr"
  /\ returned["tabB"] = "false" /\ logs["tabB"] = <<"Error saving website config:">>
  /\ table = {RowOfR1, RowOfR2}

\* The subdomains in use.
UsedSubdomains == {row.subdomain : row \in table}

\* The slug the claim expects for a name: the base slug, or the base slug
\* with the least free suffix.
FreeSlug(name) ==
  LET base == BaseSlug(name)
      Suffixed(k) == base \o "-" \o ToString(k)
      least == CHOOSE k \in 1..(Cardinality(table) + 1) :
                 /\ Suffixed(k) \notin UsedSubdomains
                 /\ \A j \in 1..(k - 1) : Suffixed(j) \in UsedSubdomains
  IN  IF base \notin UsedSubdomains THEN base ELSE Suffixed(least)

\* C18: generate_website_subdomain returns a slug no row uses when it
\* returns: the base slug if it is free, else base-k for the least k >= 1
\* with base-k free; the loop ends after at most one round per row.
C18_SlugIsFree ==
  /\ \A r \in DOMAIN restaurants :
       /\ generate_website_subdomain(table, restaurants[r].name) \notin UsedSubdomains
       /\ generate_website_subdomain(table, restaurants[r].name)
            = FreeSlug(restaurants[r].name)
  /\ \A s \in Sessions : \A i \in Slots :
       (ops[s][i].kind = "gen" /\ ops[s][i].stage = "answered" /\ ops[s][i].ok)
         => /\ ops[s][i].data.slug \notin UsedSubdomains
            /\ ops[s][i].data.slug = FreeSlug(restaurants[ops[s][i].rid].name)

\* With hez-ea, hez-ea-1 and hez-ea-2 taken and hez-ea-3 free, the call was
\* answered hez-ea-3.
C18_Witness ==
  /\ {"hez-ea", "hez-ea-1", "hez-ea-2"} \subseteq UsedSubdomains
  /\ "hez-ea-3" \notin UsedSubdomains
  /\ \E i \in Slots : /\ ops["tabA"][i].kind = "gen" /\ ops["tabA"][i].ok
                      /\ ops["tabA"][i].data.slug = "hez-ea-3"

\* The class [A-Za-z0-9] of the ASCII letters and digits.
AsciiAlnum == LowerAlnum \cup {"A", "B", "C", "D", "E", "F", "G", "H", "I", "J", "K",
                               "L", "M", "N", "O", "P", "Q", "R", "S", "T", "U", "V",
                               "W", "X", "Y", "Z"}

\* The ASCII letters and digits of s, lower-cased, in order.
RECURSIVE LettersAndDigits(_)
LettersAndDigits(s) ==
  IF Len(s) = 0 THEN ""
  ELSE (IF SubSeq(s, 1, 1) \in AsciiAlnum THEN LowerChar(SubSeq(s, 1, 1)) ELSE "")
         \o LettersAndDigits(SubSeq(s, 2, Len(s)))

\* The characters of a occur in b in the same order.
RECURSIVE IsSubsequence(_, _)
IsSubsequence(a, b) ==
  IF Len(a) = 0 THEN TRUE
  ELSE IF Len(b) = 0 THEN FALSE
  ELSE IF SubSeq(a, 1, 1) = SubSeq(b, 1, 1)
       THEN IsSubsequence(SubSeq(a, 2, Len(a)), SubSeq(b, 2, Len(b)))
       ELSE IsSubsequence(a, SubSeq(b, 2, Len(b)))

\* What C30 states of the slug of a name.
WellFormedSlug(slug, name) ==
  /\ \A k \in 1..Len(slug) : SubSeq(slug, k, k) \in LowerAlnum \cup {"-"}
  /\ Len(slug) > 0 => SubSeq(slug, 1, 1) # "-" /\ SubSeq(slug, Len(slug), Len(slug)) # "-"
  /\ IsSubsequence(LettersAndDigits(name), slug)
  /\ LettersAndDigits(name) # "" => slug # ""

\* C30: the base slug of generate_website_subdomain holds only lowercase
\* letters, digits and hyphens, neither begins nor ends with a hyphen, keeps
\* every ASCII letter and digit of the name lower-cased and in order, and is
\* not empty when the name has a letter or a digit.
C30_BaseSlugKeepsLetters ==
  \A s \in Sessions : \A i \in Slots :
    (ops[s][i].kind = "gen" /\ ops[s][i].stage = "answered" /\ ops[s][i].ok)
      => /\ ops[s][i].data.slug = BaseSlug(restaurants[ops[s][i].rid].name)
         /\ WellFormedSlug(ops[s][i].data.slug, restaurants[ops[s][i].rid].name)

\* The caller of the statement of this step owns the restaurant of the row.
ByOwner(row) == restaurants[row.restaurant_id].owner_id = statement'.uid

\* C19: a caller who does not own a row's restaurant never inserts, updates
\* or deletes the row, and reads it only while it is published: every row a
\* statement adds, changes or removes belongs to the caller before and
\* after, and every row it returns is the caller's or is published.
C19_OwnerOnly ==
  [][statements' # statements =>
       /\ \A row \in table \ table' : ByOwner(row)
       /\ \A row \in table' \ table : ByOwner(row)
       /\ \A row \in statement'.rows : ByOwner(row) \/ row.is_published = TRUE
       /\ \A row \in table :
            (row.is_published = FALSE /\ ~ByOwner(row)) => row \notin statement'.rows]_vars

\* u2 tried to delete the unpublished row of u1's restaurant after reading
\* the table: the row is still there.
C19_Witness ==
  /\ statement.uid = "u2" /\ statement.verb = "delete" /\ statements = 2
  /\ table = {RowOfR1, RowOfR2}

\* The call in slot i of session s is publishWebsite() or unpublishWebsite()
\* on an existing row: saveConfig({is_published}) with a row id.
IsPublishCall(s, i) ==
  /\ ops[s][i].kind = "update"
  /\ DOMAIN ops[s][i].updates = {"is_published"}

\* a and b are equal but for is_published.
SameButPublished(a, b) ==
  /\ DOMAIN a = DOMAIN b
  /\ \A k \in DOMAIN a \ {"is_published"} : a[k] = b[k]

\* C20: publishWebsite and unpublishWebsite on an existing row change only
\* the is_published column of the persisted row and only the is_published
\* field of the hook's config.
C20_PublishChangesOnlyFlag ==
  [][\A s \in Sessions : \A i \in Slots :
       /\ (IsPublishCall(s, i) /\ StoreAnswered(s, i) /\ ops'[s][i].ok) =>
            /\ \A row \in table' \ table :
                 /\ row.id = ops[s][i].cfg.id
                 /\ row.is_published = ops[s][i].updates.is_published
                 /\ \E old \in table \ table' : SameButPublished(old, row)
            /\ Cardinality(table') = Cardinality(table)
       /\ (IsPublishCall(s, i) /\ SaveSucceeded(s, i)) =>
            /\ config'[s].is_published = ops[s][i].updates.is_published
            /\ SameButPublished(config[s], config'[s])]_vars

\* The store accepts the insert or update of slot i of session s in this step.
SaveWritten(s, i) ==
  /\ ops[s][i].kind \in {"insert", "update"} /\ ops[s][i].stage = "sent"
  /\ ops'[s][i].stage = "answered" /\ ops'[s][i].ok

\* C23: a row that saveConfig inserts or changes belongs to the restaurant
\* the hook was called with, also after restaurantId changed and whatever
\* the outcome and the arrival order of the loads.
C23_SaveWritesOwnRestaurant ==
  [][\A s \in Sessions : \A i \in Slots :
       SaveWritten(s, i) =>
         \A row \in table' \ table : row.restaurant_id = ops[s][i].rid]_vars

\* The save requests of session s that have not returned to saveConfig.
SavesOutstanding(s) == {i \in Slots : ops[s][i].kind \in {"insert", "update"}}

\* C25: saving is true in every state in which a save request of the hook is
\* outstanding, also when a Save click and a Publish click overlap.
C25_SavingWhileSaveOutstanding ==
  \A s \in Sessions : SavesOutstanding(s) # {} => saving[s]

\* C26: whenever the builder has a config and no save is in progress, the
\* Save button is shown (hasChanges) exactly when the form differs from the
\* config; in particular after a failed save the changes are still offered.
C26_SaveShownIffChanged ==
  \A s \in Sessions :
    (config[s] # Empty /\ ~loading[s] /\ ~saving[s] /\ SavesOutstanding(s) = {})
      => (hasChanges[s] <=> formData[s] # config[s])

\* The fields handleTogglePublish may set.
PublishFields == {"is_published", "subdomain"}

\* Records a and b agree outside PublishFields and the row id.
SameEdits(a, b) ==
  \A k \in (DOMAIN a \cap DOMAIN b) \ (PublishFields \cup {"id"}) : a[k] = b[k]

\* C27: publishing or unpublishing through handleTogglePublish keeps the
\* unsaved form edits: when its save returns, every formData field other
\* than is_published and subdomain is as before; and what its save writes
\* differs from the stored row (from the config, for a first insert) in
\* those two fields only.
C27_PublishKeepsEdits ==
  [][\A s \in Sessions : \A i \in Slots :
       /\ (ops[s][i].caller = "toggle" /\ SaveSucceeded(s, i))
            => SameEdits(formData[s], formData'[s])
       /\ (ops[s][i].caller = "toggle" /\ SaveWritten(s, i)) =>
            \A new \in table' \ table :
              /\ \A old \in table : old.id = new.id => SameEdits(old, new)
              /\ ops[s][i].kind = "insert" => SameEdits(ops[s][i].cfg, new)]_vars

\* C29: when every request is answered, the loading flag of each session
\* becomes false after mount, for a restaurantId that is a string or null,
\* and whenever saving is true it becomes false again.
C29_FlagsSettle ==
  /\ \A s \in Sessions : <>(~loading[s])
  /\ \A s \in Sessions : saving[s] ~> ~saving[s]

\* C22: no row is published without a subdomain: whatever the form edits,
\* the results of generateSubdomain and the Publish clicks, a row with
\* is_published true holds a subdomain that is neither NULL nor empty.
C22_PublishedHasSubdomain ==
  \A row \in table : row.is_published = TRUE => ~Falsy(row.subdomain)

---------------------------------------------------------------------------
(* Properties of the public page *)

\* The table holds a published row of an active restaurant for sub.
Visible(sub) ==
  \E row \in table : /\ row.subdomain = sub
                     /\ row.is_published = TRUE
                     /\ restaurants[row.restaurant_id].is_active = TRUE

\* In this step the page finishes the call op.
Finished(op) == op \in pageOps /\ op.stage = "answered" /\ op \notin pageOps'

\* C4: a subdomain whose row is unpublished, whose restaurant is inactive or
\* that matches no row gets no record from get_public_website, and the page
\* that asked for it shows the 404 view from then on; a record is returned
\* only for a matching, published row of an active restaurant.
C4_OnlyPublishedActive ==
  /\ [](/\ \A sub \in Subdomains :
             /\ ~Visible(sub) => get_public_website(table, restaurants, sub) = {}
             /\ \A rec \in get_public_website(table, restaurants, sub) :
                  /\ rec.website_config \in table
                  /\ rec.website_config.subdomain = sub
                  /\ rec.website_config.is_published = TRUE
                  /\ restaurants[rec.restaurant_data.id].is_active = TRUE
        /\ \A op \in pageOps :
             (op.stage = "answered" /\ op.result # {}) => Visible(op.sub)
        /\ (pageData # Empty =>
              /\ pageData.website_config \in table
              /\ Visible(pageData.website_config.subdomain)))
  /\ [][/\ \A op \in pageOps :
             (Finished(op) /\ ~Visible(op.sub)) => (View' = "404" /\ pageError' # null)
        /\ (View = "404" /\ pageError # null) => View' = "404"]_vars

\* The page asked for the subdomain of an unpublished row, the call was
\* answered with no row, and the page shows 404.
C4_Witness ==
  /\ subdomainParam = "hez-ea" /\ pageOps = {}
  /\ \E row \in table : row.subdomain = "hez-ea" /\ row.is_published = FALSE
  /\ pageError = "Site non trouvé" /\ pageData = Empty /\ View = "404"

\* The page shows the site of the record of subdomain sub.
ShowsSiteOf(sub) == View = "site" /\ pageData.website_config.subdomain = sub

\* C24: when the load for the current subdomain parameter returns a record,
\* the page shows the site of that record, not the 404 view, and goes on
\* showing it while the parameter stays, whatever calls for earlier
\* parameters return afterwards.
C24_ShowsCurrentRecord ==
  [][/\ \A op \in pageOps :
          (Finished(op) /\ op.ok /\ op.result # {} /\ op.sub = subdomainParam)
            => ShowsSiteOf(subdomainParam)'
     /\ (ShowsSiteOf(subdomainParam) /\ subdomainParam' = subdomainParam)
          => ShowsSiteOf(subdomainParam)']_vars

\* The flag of the website config that belongs to each section.
FlagOf ==
  [about |-> "about_enabled", menu |-> "menu_enabled", gallery |-> "gallery_enabled",
   contact |-> "contact_enabled", reservations |-> "reservations_enabled"]

\* C11: on the rendered site each section (about, menu, gallery, contact,
\* reservations) is included if and only if its flag in the website config
\* is true.
C11_SectionIffFlag ==
  View = "site" =>
    \A sec \in DOMAIN FlagOf :
      sec \in Rendered <=> pageData.website_config[FlagOf[sec]] = TRUE


\* The first value of the chain that is present and not empty, the last
\* value when none is.
FirstPresent(chain) ==
  LET present == {k \in 1..Len(chain) : chain[k] \notin {undefined, null, ""}}
  IN  IF present = {} THEN chain[Len(chain)]
      ELSE chain[CHOOSE k \in present : \A j \in present : k <= j]

\* The fallback chain of each text of the site: the config value, then the
\* restaurant's values, then the hardcoded text.
ChainOf(cfg, restaurant) ==
  [title |-> <<cfg.meta_title, restaurant.name>>,
   meta_description |-> <<cfg.meta_description, restaurant.description>>,
   hero_title |-> <<cfg.hero_title, restaurant.name>>,
   hero_subtitle |-> <<cfg.hero_subtitle, restaurant.description>>,
   hero_cta_text |-> <<cfg.hero_cta_text, "Réserver une table">>,
   about_title |-> <<cfg.about_title, "À propos">>,
   about_content |-> <<cfg.about_content, restaurant.description_fr,
                       restaurant.description>>,
   menu_title |-> <<cfg.menu_title, "Notre Menu">>,
   gallery_title |-> <<cfg.gallery_title, "Galerie">>,
   contact_title |-> <<cfg.contact_title, "Contact">>,
   reservations_title |-> <<cfg.reservations_title, "Réservations">>]

\* C21: each text of the public site is the first present and non-empty
\* value of its chain: the config value, else the restaurant's value where
\* there is one (title: meta_title, name; about text: about_content,
\* description_fr, description), else the hardcoded text (section titles).
C21_FallbackChains ==
  View = "site" =>
    /\ {"title", "meta_description", "hero_title", "about_title", "about_content",
        "menu_title", "gallery_title", "contact_title", "reservations_title"}
         \subseteq DOMAIN RenderedTexts
    /\ \A e \in DOMAIN RenderedTexts :
         RenderedTexts[e] =
           FirstPresent(ChainOf(pageData.website_config, pageData.restaurant_data)[e])

\* The site is shown for a row whose config texts are empty strings and a
\* restaurant without French description: the title is the restaurant's
\* name, the about text its description, the menu title the hardcoded one.
C21_Witness ==
  /\ View = "site"
  /\ pageData.website_config.meta_title = ""
  /\ pageData.website_config.about_content = ""
  /\ pageData.website_config.menu_title = ""
  /\ pageData.restaurant_data.description_fr = null
  /\ RenderedTexts.title = "Chez Léa"
  /\ RenderedTexts.about_content = "Une table"
  /\ RenderedTexts.menu_title = "Notre Menu"

===========================================================================
